---- MODULE Spec2Model ----
(***************************************************************************)
(* State-machine model of the animation-flattening scripts:                *)
(*   new.py / split_slide.py      timeline expansion (one slide per step)  *)
(*   split_anim.py / pptx_split_anim_inout.py   Before/After split         *)
(***************************************************************************)
EXTENDS Integers, Sequences, FiniteSets, TLC

(* ------------------------------ bounds --------------------------------- *)
\* number of <p:set> nodes read from one slide's timing tree
MaxSets == 3
\* number of slides the input deck lists
MaxSlides == 2

VARIABLES
    \* --- one slide, timeline classifier and state machine (SpecSnap) ---
    pc,             \* position of the run
    shapes,         \* keys of collect_shapes' result for the slide
    events,         \* collect_visibility_events: events
    ctn_to_serial,  \* collect_visibility_events: ctn_to_serial
    step_serial,    \* collect_visibility_events: step_serial
    ctn,            \* the container proxy the local `ctn` still holds
    snapshots,      \* build_snapshots' result (new.py)
    snaps,          \* build_snapshots' result (split_slide.py)
    \* --- the deck, timeline conversion (SpecDeck) ---
    variant,        \* "new" (new.py) or "split_slide" (split_slide.py)
    sldIdLst,       \* <p:sldIdLst> of presentation.xml: [id, rid] entries
    pres_rels,      \* pres_rels_root: the <Relationship> elements
    relinfo,        \* relinfo: Id -> [target, type]
    slides_dir,     \* ppt/slides: part number -> slide part
    rels_dir,       \* ppt/slides/_rels: part number -> relationship file
    others,         \* tmpdir: every other extracted file, name -> content
    max_slide_num,  \* main: max_slide_num
    max_sldId,      \* main: max_sldId
    todo,           \* the rest of list(sldIdLst) the for loop walks
    sldId,          \* main: sldId, the entry new entries are put after
    slide_tree,     \* main: slide_tree
    slide_path,     \* main: slide_path (part number)
    pending,        \* the rest of snapshots[1:] the inner loop walks
    output,         \* OUTPUT_PPTX
    input,          \* the deck as it was read (never written)
    built,          \* per converted entry: its tree and its snapshots
    log,            \* the allocations of the run, in order
    \* --- the deck, Before/After split (SpecSplit) ---
    script,         \* "split_anim" (split_anim.py) or "inout"
                    \* (pptx_split_anim_inout.py)
    lib,            \* the python-pptx release the script runs on
    prs,            \* prs.slides: the slide objects, in slide-list order
    slide_parts,    \* slide_parts: the slide parts of the zip, sorted
    idx,            \* idx of the for loop over slide_parts
    ids_in,         \* ids_in / entr_ids
    ids_out,        \* ids_out / exit_ids
    src_slide,      \* src_slide (slide id, 0: none)
    before,         \* before / before_slide (slide id, 0: none)
    after,          \* after / after_slide (slide id, 0: none)
    splits,         \* the finished Before/After pairs, in order
    saved,          \* the file prs.save wrote
    \* --- materialise_snapshot on its own (SpecMat) ---
    mat_variant,    \* "new" (new.py) or "split_slide" (split_slide.py)
    mat_tree,       \* materialise_snapshot: orig_tree
    mat_map,        \* materialise_snapshot: visible_map
    mat_out,        \* materialise_snapshot: the tree returned
    \* --- extract_entr_exit_ids on its own (SpecClass) ---
    cls_script,     \* "split_anim" or "inout" (pptx_split_anim_inout.py)
    cls_xml,        \* extract_entr_exit_ids: slide_xml
    cls_out         \* extract_entr_exit_ids: the two sets returned

snapVars == <<pc, shapes, events, ctn_to_serial, step_serial, ctn,
              snapshots, snaps>>
deckVars == <<variant, sldIdLst, pres_rels, relinfo, slides_dir, rels_dir,
              others,
              max_slide_num, max_sldId, todo, sldId, slide_tree, slide_path,
              pending, output, input, built, log>>
splitVars == <<script, lib, prs, slide_parts, idx, ids_in, ids_out, src_slide,
               before, after, splits, saved>>
matVars == <<mat_variant, mat_tree, mat_map, mat_out>>
clsVars == <<cls_script, cls_xml, cls_out>>
vars == <<snapVars, deckVars, splitVars, matVars, clsVars>>

(* ------------------------------ helpers -------------------------------- *)
Range(s) == {s[i] : i \in 1..Len(s)}

\* dict assignment d[k] = v (the key is added when it is absent)
DictSet(d, k, v) == [x \in (DOMAIN d) \cup {k} |-> IF x = k THEN v ELSE d[x]]

\* dict.get(k, default)
DictGet(d, k, default) == IF k \in DOMAIN d THEN d[k] ELSE default

EmptyDict == [x \in {} |-> TRUE]

(* --------------------- the timing tree of one slide -------------------- *)
\* Timing containers (<p:cTn>) a <p:set> can have as nearest ancestor.
\* A and B carry an id attribute, C and D carry none; "none" is a <p:set>
\* with no <p:cTn> ancestor.
Containers == {"A", "B", "C", "D"}
NoCtn == "none"
CtnIdAttr == [c \in Containers |->
                 CASE c = "A" -> 5 [] c = "B" -> 6 [] OTHER -> 0]
CtnHasId(c) == CtnIdAttr[c] # 0

\* values id() can return for a container proxy
Addrs == 1..MaxSets

\* shape ids a <p:set> targets, and the shapes collect_shapes finds on the
\* slide (id 1 is the shape tree's own): a targeted id need not be a shape
\* (2 or 3 outside the set), and a shape need not be targeted (4)
TargetIds == {2, 3}
ShapeSets == {{}, {2}, {2, 3}, {2, 3, 4}}

\* A <p:set> node as lines 75-91 of new.py read it:
\*   attr   whether "style.visibility" is among its attrName texts
\*   tgt    .//p:spTgt/@spid : "ok" (an integer), "missing", "nonnumeric"
\*   spid   the integer, when tgt = "ok"
\*   to     ./p:to/p:strVal/@val : "visible", "hidden", "missing"
\*   ctn    nearest enclosing <p:cTn>, or NoCtn
WellFormedSets ==
    [attr : {TRUE}, tgt : {"ok"}, spid : TargetIds,
     to : {"visible", "hidden"}, ctn : Containers \cup {NoCtn}]
MalformedSets ==
    {[attr |-> FALSE, tgt |-> "ok", spid |-> 2, to |-> "visible", ctn |-> "A"],
     [attr |-> TRUE, tgt |-> "missing", spid |-> 2, to |-> "visible", ctn |-> "A"],
     [attr |-> TRUE, tgt |-> "nonnumeric", spid |-> 2, to |-> "visible", ctn |-> "A"],
     [attr |-> TRUE, tgt |-> "ok", spid |-> 2, to |-> "missing", ctn |-> "A"]}
SetNodes == WellFormedSets \cup MalformedSets

\* lines 76-87: the node is skipped
Skipped(n) == \/ ~n.attr
              \/ n.tgt = "missing" \/ n.to = "missing"
              \/ n.tgt = "nonnumeric"

NoProxy == [el |-> NoCtn, addr |-> 0]

\* addresses that name a step key so far, and the one of the held proxy
UsedAddrs(held, c2s) == {k[2] : k \in {x \in DOMAIN c2s : x[1] = "addr"}}
                        \cup ({held.addr} \ {0})

\* line 91: the proxy bound to `ctn` after the xpath call.  The proxy of the
\* container held from the previous evaluation is still alive while the new
\* one is created: the same element gives the same object, another element
\* an object at another address.  An address freed earlier may come back.
\* The address of a container with an id attribute is never read (addr 0:
\* some address other than the next one chosen).  Addresses never seen
\* before are interchangeable, so only the smallest of them is tried.
ProxyChoices(n, held, c2s) ==
    IF n.ctn = NoCtn THEN {NoProxy}
    ELSE IF held.el = n.ctn THEN {held}
    ELSE IF CtnHasId(n.ctn) THEN {[el |-> n.ctn, addr |-> 0]}
    ELSE LET used == UsedAddrs(held, c2s)
             new == Addrs \ used
             cand == used \cup {a \in new : \A b \in new : a <= b}
         IN {[el |-> n.ctn, addr |-> a] : a \in cand \ {held.addr}}

\* line 92: ctn_key.  An id attribute when present and non-empty, else id()
\* of the container proxy, else id() of the <p:set> proxy itself (every
\* <p:set> proxy is alive in the xpath result list, so these are unique and
\* differ from every container proxy's; index stands for that value).
CtnKey(n, proxy, index) ==
    IF n.ctn # NoCtn /\ CtnHasId(n.ctn) THEN <<"attr", CtnIdAttr[n.ctn]>>
    ELSE IF n.ctn # NoCtn THEN <<"addr", proxy.addr>>
    ELSE <<"set", index>>

(* ------------------- collect_visibility_events (new.py) ---------------- *)
\* lines 69-71: the locals before the loop
CollectStart ==
    [events |-> <<>>, ctn_to_serial |-> EmptyDict, step_serial |-> -1,
     ctn |-> NoProxy]

\* lines 88-97 for a node that is not skipped, given the proxy of line 91.
\* The event keeps the container its node came from (ctn), which the
\* program does not store.
collect_event(st, n, proxy) ==
    LET key == CtnKey(n, proxy, Len(st.events) + 1)
        fresh == key \notin DOMAIN st.ctn_to_serial
        serial == IF fresh THEN st.step_serial + 1 ELSE st.ctn_to_serial[key]
    IN [events |-> Append(st.events,
                          [step |-> serial, spid |-> n.spid,
                           visible |-> (n.to # "hidden"), ctn |-> n.ctn]),
        ctn_to_serial |-> IF fresh THEN DictSet(st.ctn_to_serial, key, serial)
                          ELSE st.ctn_to_serial,
        step_serial |-> IF fresh THEN st.step_serial + 1 ELSE st.step_serial,
        ctn |-> proxy]

\* One iteration of the loop over //p:set (lines 73-97): the locals it can
\* leave behind
collect_iter(st, n) ==
    IF Skipped(n) THEN {st}
    ELSE {collect_event(st, n, proxy) :
            proxy \in ProxyChoices(n, st.ctn, st.ctn_to_serial)}

\* lines 64-99, over the <p:set> nodes of a slide in document order: the
\* event lists the function can return
RECURSIVE collect_from(_, _, _)
collect_from(sets, i, st) ==
    IF i > Len(sets) THEN {st.events}
    ELSE UNION {collect_from(sets, i + 1, s2) : s2 \in collect_iter(st, sets[i])}

collect_visibility_events(sets) == collect_from(sets, 1, CollectStart)

CollectInit ==
    /\ events = CollectStart.events
    /\ ctn_to_serial = CollectStart.ctn_to_serial
    /\ step_serial = CollectStart.step_serial
    /\ ctn = CollectStart.ctn

\* The loop body on the next <p:set> of the slide, whatever node that is;
\* at most MaxSets nodes of a slide yield an event.
CollectStep ==
    /\ pc = "collect"
    /\ Len(events) < MaxSets
    /\ \E n \in SetNodes :
         \E s2 \in collect_iter([events |-> events,
                                 ctn_to_serial |-> ctn_to_serial,
                                 step_serial |-> step_serial,
                                 ctn |-> ctn], n) :
            /\ events' = s2.events
            /\ ctn_to_serial' = s2.ctn_to_serial
            /\ step_serial' = s2.step_serial
            /\ ctn' = s2.ctn
    /\ UNCHANGED <<pc, shapes, snapshots, snaps>>
    /\ UNCHANGED <<deckVars, splitVars, matVars, clsVars>>

(* ------------------------ build_snapshots (new.py) --------------------- *)
\* lines 109-114: the first event of a shape that makes it visible hides it
\* in the initial state
RECURSIVE first_change(_, _, _, _)
first_change(evs, i, seen, state) ==
    IF i > Len(evs) THEN state
    ELSE LET e == evs[i] IN
         IF e.spid \in seen THEN first_change(evs, i + 1, seen, state)
         ELSE first_change(evs, i + 1, seen \cup {e.spid},
                           IF e.visible THEN DictSet(state, e.spid, FALSE)
                           ELSE state)

\* initial_state with the `spid not in first_change` test dropped: every
\* event that makes a shape visible hides it initially, not only its first
initial_state_any_event(shps, evs) ==
    LET vis == {evs[i].spid : i \in {j \in 1..Len(evs) : evs[j].visible}}
    IN [s \in shps \cup vis |-> s \notin vis]

\* lines 106-114
initial_state(shps, evs) ==
    first_change(evs, 1, {}, [s \in shps |-> TRUE])

\* lines 118-124: acc = [state, snaps, applied, current_step]; applied[j] is
\* the number of events already applied to the state copied as snaps[j]
RECURSIVE replay(_, _, _)
replay(evs, i, acc) ==
    IF i > Len(evs) THEN acc
    ELSE LET e == evs[i]
             emit == e.step # acc.current_step /\ acc.current_step # -1
             a1 == [acc EXCEPT
                      !.snaps = IF emit THEN Append(@, acc.state) ELSE @,
                      !.applied = IF emit THEN Append(@, i - 1) ELSE @,
                      !.current_step = e.step]
         IN replay(evs, i + 1,
                   [a1 EXCEPT !.state = DictSet(@, e.spid, e.visible)])

\* lines 102-127
build_snapshots(shps, evs) ==
    LET s0 == initial_state(shps, evs)
        r == replay(evs, 1, [state |-> s0, snaps |-> <<s0>>,
                             applied |-> <<0>>, current_step |-> -1])
    IN [snaps |-> Append(r.snaps, r.state),
        applied |-> Append(r.applied, Len(evs))]

(* --------------------- build_snapshots (split_slide.py) ---------------- *)
\* lines 149-156
RECURSIVE first_seen(_, _, _, _)
first_seen(evs, i, seen, state) ==
    IF i > Len(evs) THEN state
    ELSE LET e == evs[i] IN
         IF e.spid \in seen THEN first_seen(evs, i + 1, seen, state)
         ELSE first_seen(evs, i + 1, seen \cup {e.spid},
                         DictSet(state, e.spid, ~e.visible))

\* lines 160-163: one snapshot per event
RECURSIVE replay_each(_, _, _)
replay_each(evs, i, acc) ==
    IF i > Len(evs) THEN acc
    ELSE LET e == evs[i]
             st == IF e.spid \in DOMAIN acc.state
                   THEN DictSet(acc.state, e.spid, e.visible)
                   ELSE acc.state
         IN replay_each(evs, i + 1,
                        [state |-> st, snaps |-> Append(acc.snaps, st)])

\* lines 133-164
build_snapshots_split_slide(shps, evs) ==
    LET s0 == first_seen(evs, 1, {}, [s \in shps |-> TRUE])
    IN replay_each(evs, 1, [state |-> s0, snaps |-> <<s0>>]).snaps

(* ------------------------------ slide parts ---------------------------- *)
\* An XML element: its tag, its id attribute (0: none, -1: not a number) and
\* its children in document order.
El(tag, id, kids) == [tag |-> tag, id |-> id, kids |-> kids]

\* The elements the scripts look for: a shape is <p:sp>, <p:pic>,
\* <p:graphicFrame> or <p:grpSp>; its id is on <p:cNvPr> inside its nv*Pr
\* child.  The shape tree has its own <p:cNvPr id="1">.
cNvPr(id) == El("cNvPr", id, <<>>)
Sp(id) == El("sp", 0, <<El("nvSpPr", 0, <<cNvPr(id)>>)>>)
Pic(id) == El("pic", 0, <<El("nvPicPr", 0, <<cNvPr(id)>>)>>)
GrpSp(id, members) ==
    El("grpSp", 0, <<El("nvGrpSpPr", 0, <<cNvPr(id)>>)>> \o members)
SpTree(members) ==
    El("spTree", 0, <<El("nvGrpSpPr", 0, <<cNvPr(1)>>)>> \o members)

\* descendants of el in document order, from its i-th child on
RECURSIVE DescFrom(_, _)
DescFrom(el, i) ==
    IF i > Len(el.kids) THEN <<>>
    ELSE <<el.kids[i]>> \o DescFrom(el.kids[i], 1) \o DescFrom(el, i + 1)

Descendants(el) == DescFrom(el, 1)

\* tree.xpath("//p:sp | //p:pic | ..."): the elements of the tree with one
\* of the tags, in document order
XPathTags(root, tags) ==
    SelectSeq(<<root>> \o Descendants(root), LAMBDA e : e.tag \in tags)

\* el.find(".//p:cNvPr"): the first descendant <p:cNvPr>, <<>> when none
FindCNvPr(el) ==
    LET c == SelectSeq(Descendants(el), LAMBDA e : e.tag = "cNvPr")
    IN IF c = <<>> THEN <<>> ELSE <<c[1]>>

\* int(cNvPr.get("id")) succeeds
HasSpid(el) == FindCNvPr(el) # <<>> /\ FindCNvPr(el)[1].id >= 1
Spid(el) == FindCNvPr(el)[1].id

\* the tags the two timeline scripts select (new.py:52, split_slide.py:84)
ShapeTags(v) == IF v = "new" THEN {"sp", "pic", "graphicFrame"}
                ELSE {"sp", "pic", "graphicFrame", "grpSp"}

\* collect_shapes: the keys of the dict it returns
collect_shapes(tree, v) ==
    LET els == XPathTags(tree, ShapeTags(v))
    IN {Spid(els[i]) : i \in {j \in 1..Len(els) : HasSpid(els[j])}}

\* the removal loop with visible_map.get(spid, False): an id the map does not
\* hold counts as hidden
RECURSIVE remove_hidden_default_false(_, _, _)
remove_hidden_default_false(el, visible_map, v) ==
    LET kept == SelectSeq(el.kids,
                   LAMBDA k : ~(/\ k.tag \in ShapeTags(v)
                                /\ HasSpid(k)
                                /\ ~DictGet(visible_map, Spid(k), FALSE)))
    IN [el EXCEPT !.kids = [i \in 1..Len(kept) |->
                    remove_hidden_default_false(kept[i], visible_map, v)]]

\* materialise_snapshot, lines 136-146: el.getparent().remove(el) for every
\* selected element whose id the map sends to False
RECURSIVE remove_hidden(_, _, _)
remove_hidden(el, visible_map, v) ==
    LET kept == SelectSeq(el.kids,
                   LAMBDA k : ~(/\ k.tag \in ShapeTags(v)
                                /\ HasSpid(k)
                                /\ ~DictGet(visible_map, Spid(k), TRUE)))
    IN [el EXCEPT !.kids = [i \in 1..Len(kept) |->
                               remove_hidden(kept[i], visible_map, v)]]

\* materialise_snapshot with the removal test lacking its "not": the shapes
\* the map holds as visible are the ones removed
materialise_snapshot_inverted(orig_tree, visible_map, v) ==
    [tree |-> remove_hidden(orig_tree.tree,
                            [x \in DOMAIN visible_map |-> ~visible_map[x]], v),
     timing |-> <<>>]

\* A slide part: its shape tree and the <p:set> nodes of its <p:timing>.
\* materialise_snapshot, lines 130-148: the timing is dropped too.
materialise_snapshot(orig_tree, visible_map, v) ==
    [tree |-> remove_hidden(orig_tree.tree, visible_map, v), timing |-> <<>>]

NotBuilt == [snaps |-> <<>>, applied |-> <<>>]

\* main, lines 194-203 of new.py (252 of split_slide.py), for one slide
Build ==
    /\ pc = "collect"
    /\ pc' = "built"
    /\ snapshots' = build_snapshots(shapes, events)
    /\ snaps' = build_snapshots_split_slide(shapes, events)
    /\ UNCHANGED <<shapes, events, ctn_to_serial, step_serial, ctn>>
    /\ UNCHANGED <<deckVars, splitVars, matVars, clsVars>>

(* ------------------------------ ids ------------------------------------ *)
\* An id is a string, here the tuple of its characters.
DigitChars == <<"0", "1", "2", "3", "4", "5", "6", "7", "8", "9">>
IsDigit(c) == c \in Range(DigitChars)
DigitVal(c) == (CHOOSE i \in 1..Len(DigitChars) : DigitChars[i] = c) - 1

\* re.sub(r"\D", "", s)
Digits(s) == SelectSeq(s, IsDigit)

\* int(s) of a string of digits
RECURSIVE ToInt(_)
ToInt(ds) ==
    IF ds = <<>> THEN 0
    ELSE ToInt(SubSeq(ds, 1, Len(ds) - 1)) * Len(DigitChars) + DigitVal(ds[Len(ds)])

\* str(n)
RECURSIVE ToStr(_)
ToStr(n) ==
    IF n < Len(DigitChars) THEN <<DigitChars[n + 1]>>
    ELSE ToStr(n \div Len(DigitChars)) \o <<DigitChars[(n % Len(DigitChars)) + 1]>>

\* max(nums, default=d)
MaxOf(nums, d) == IF nums = {} THEN d
                  ELSE CHOOSE m \in nums : \A x \in nums : x <= m

RIdPrefix == <<"r", "I", "d">>

\* next_numeric_id looking only at the ids that start with the prefix
next_numeric_id_same_prefix(existing, prefix) ==
    LET mine == {y \in existing : /\ Len(y) > Len(prefix)
                                  /\ SubSeq(y, 1, Len(prefix)) = prefix}
        nums == {ToInt(Digits(x)) : x \in {y \in mine : Digits(y) # <<>>}}
    IN prefix \o ToStr(MaxOf(nums, 0) + 1)

\* new.py:45-47
next_numeric_id(existing, prefix) ==
    LET nums == {ToInt(Digits(x)) : x \in {y \in existing : Digits(y) # <<>>}}
    IN prefix \o ToStr(MaxOf(nums, 0) + 1)

(* ----------------------- strings, attributes --------------------------- *)
\* Python's None, apart from every string an attribute can hold
None == "<None>"

\* str(x) of an attribute value: str(None) is the text "None"
str(x) == IF x = None THEN "None" ELSE x

Decimal == "0123456789"
UpperCase == "ABCDEFGHIJKLMNOPQRSTUVWXYZ"
LowerCase == "abcdefghijklmnopqrstuvwxyz"

CharAt(s, i) == SubSeq(s, i, i)
Rest(s) == SubSeq(s, 2, Len(s))

\* str(n) of a natural number
RECURSIVE str_int(_)
str_int(n) ==
    IF n < 10 THEN CharAt(Decimal, n + 1)
    ELSE str_int(n \div 10) \o CharAt(Decimal, (n % 10) + 1)

RECURSIVE nat_of(_, _)
nat_of(s, acc) ==
    IF Len(s) = 0 THEN acc
    ELSE nat_of(Rest(s),
                10 * acc + (CHOOSE d \in 0..9 :
                               CharAt(Decimal, d + 1) = CharAt(s, 1)))

\* int(s) of a decimal numeral with an optional sign
int(s) == IF CharAt(s, 1) = "-" THEN 0 - nat_of(Rest(s), 0) ELSE nat_of(s, 0)

lower_char(c) ==
    IF \E i \in 1..Len(UpperCase) : CharAt(UpperCase, i) = c
    THEN CharAt(LowerCase,
                CHOOSE i \in 1..Len(UpperCase) : CharAt(UpperCase, i) = c)
    ELSE c

\* s.lower()
RECURSIVE lower(_)
lower(s) == IF Len(s) = 0 THEN s ELSE lower_char(CharAt(s, 1)) \o lower(Rest(s))

\* s.startswith(p)
startswith(s, p) == Len(s) >= Len(p) /\ SubSeq(s, 1, Len(p)) = p

(* --------------------- the <p:timing> tree of a slide ------------------- *)
\* An element of the timing tree: tag, attributes, text and children.
Node(tag, attrs, text, kids) ==
    [tag |-> tag, attrs |-> attrs, text |-> text, kids |-> kids]

NoAttrs == EmptyDict

\* el.get(name), el.get(name, default)
get(el, name) == IF name \in DOMAIN el.attrs THEN el.attrs[name] ELSE None
get_default(el, name, default) ==
    IF name \in DOMAIN el.attrs THEN el.attrs[name] ELSE default

\* The markup PowerPoint writes: a behaviour holds its target and its
\* attribute names under <p:cBhvr>; a click effect is a <p:par> whose <p:cTn>
\* carries nodeType and presetClass and holds the behaviours.
SpTgt(attrs) == Node("spTgt", attrs, None, <<>>)
TgtEl(spid) == Node("tgtEl", NoAttrs, None, <<SpTgt("spid" :> spid)>>)
AttrName(text) == Node("attrName", NoAttrs, text, <<>>)
CBhvr(tgt, names) ==
    Node("cBhvr", NoAttrs, None,
         <<Node("cTn", NoAttrs, None, <<>>), tgt>> \o
         (IF names = <<>> THEN <<>>
          ELSE <<Node("attrNameLst", NoAttrs, None, names)>>))
StrVal(val) ==
    Node("to", NoAttrs, None, <<Node("strVal", "val" :> val, None, <<>>)>>)
Set(spid, name, val) ==
    Node("set", NoAttrs, None,
         <<CBhvr(TgtEl(spid), <<AttrName(name)>>), StrVal(val)>>)
\* a <p:set> that holds <p:attrName> as its own child
FlatSet(spid, name, val) ==
    Node("set", NoAttrs, None, <<AttrName(name), TgtEl(spid), StrVal(val)>>)
AnimEffect(tag, attrs, tgt) == Node(tag, attrs, None, <<CBhvr(tgt, <<>>)>>)
AnimMotion(spid, to) ==
    Node("animMotion", NoAttrs, None, <<CBhvr(TgtEl(spid), <<>>)>> \o to)
ClickEffect(attrs, kids) ==
    Node("par", NoAttrs, None,
         <<Node("cTn", attrs @@ ("nodeType" :> "clickEffect"), None,
                <<Node("childTnLst", NoAttrs, None, kids)>>)>>)
Timing(effects) ==
    Node("timing", NoAttrs, None,
         <<Node("tnLst", NoAttrs, None,
                <<Node("par", NoAttrs, None,
                       <<Node("cTn", "nodeType" :> "tmRoot", None,
                              <<Node("childTnLst", NoAttrs, None,
                                     effects)>>)>>)>>)>>)

(* ------------------------------ XPath ----------------------------------- *)
\* el.xpath(".//p:tag"): the descendants with the tag, in document order
findall(el, tag) == SelectSeq(Descendants(el), LAMBDA n : n.tag = tag)

\* el.xpath("./p:tag"): the children with the tag
children(el, tag) == SelectSeq(el.kids, LAMBDA n : n.tag = tag)

RECURSIVE Flatten(_)
Flatten(ss) == IF ss = <<>> THEN <<>> ELSE Head(ss) \o Flatten(Tail(ss))

\* nodes/p:tag
step(nodes, tag) ==
    Flatten([i \in 1..Len(nodes) |-> children(nodes[i], tag)])

\* nodes/@name
attribute(nodes, name) ==
    LET has == SelectSeq(nodes, LAMBDA n : name \in DOMAIN n.attrs)
    IN [i \in 1..Len(has) |-> has[i].attrs[name]]

\* the XPath string value of an element without children
string_value(n) == IF n.text = None THEN "" ELSE n.text

\* {t.get("spid") for t in el.xpath(".//p:spTgt")}
spids(el) == {get(t, "spid") : t \in Range(findall(el, "spTgt"))}

(* ----------------- extract_entr_exit_ids (both scripts) ----------------- *)
\* _add: split_anim.py keeps the truthy ids only (line 80),
\* pptx_split_anim_inout.py takes them all (lines 92-96)
add(ids, v) ==
    IF v = "split_anim" THEN {i \in ids : i # None /\ i # ""} ELSE ids

\* (el.get(name) or "").lower()
lowered(el, name) ==
    LET a == get(el, name) IN IF a = None THEN "" ELSE lower(a)

\* 1. <p:animEffect>: split_anim.py:86-93, pptx_split_anim_inout.py:101-109
bucket_animEffect(eff) ==
    LET cls == lowered(eff, "presetClass")
        filt == lowered(eff, "filter")
    IN IF cls = "entr" \/ startswith(filt, "in:") THEN "entr"
       ELSE IF cls = "exit" \/ startswith(filt, "out:") THEN "exit"
       ELSE "none"

\* 2. clickEffect: split_anim.py:96-107, pptx_split_anim_inout.py:114-128
bucket_clickEffect(c) ==
    LET cls == lowered(c, "presetClass")
        sets == SelectSeq(findall(c, "set"),
                  LAMBDA s : \E a \in Range(children(s, "attrName")) :
                                string_value(a) = "style.visibility")
        vis == attribute(step(step(sets, "to"), "strVal"), "val")
    IN IF cls \in {"entr", "exit"} THEN cls
       ELSE IF vis = <<>> THEN "none"
       ELSE IF vis[1] = "hidden" THEN "exit" ELSE "entr"

\* 3. <p:set>: split_anim.py:110-122, pptx_split_anim_inout.py:133-150
to_val(s) ==
    LET a == attribute(step(children(s, "to"), "strVal"), "val")
        b == attribute(children(s, "to"), "val")
        c == attribute(children(s, "to"), "valLst")
        to == IF a # <<>> THEN a ELSE IF b # <<>> THEN b ELSE c
    IN IF to # <<>> THEN to[1] ELSE ""

bucket_set(s) ==
    LET attr == {lower(n.text) : n \in Range(findall(s, "attrName"))}
    IN IF "style.visibility" \in attr
       THEN (IF to_val(s) = "hidden" THEN "exit" ELSE "entr")
       ELSE IF {"opacity", "style.opacity"} \cap attr # {}
       THEN (IF to_val(s) \in {"0", "0.0"} THEN "exit" ELSE "entr")
       ELSE "none"

\* 4. <p:animMotion>: split_anim.py:125-133, pptx_split_anim_inout.py:155-163
OffCanvas == 100000

\* the test written with >=: a destination on the edge of the canvas counts
\* as outside
bucket_animMotion_inclusive(mot) ==
    LET to_xy == children(mot, "to") IN
    IF to_xy = <<>> THEN "none"
    ELSE LET x == int(get_default(to_xy[1], "x", "0"))
             y == int(get_default(to_xy[1], "y", "0"))
         IN IF x < 0 \/ y < 0 \/ x >= OffCanvas \/ y >= OffCanvas
            THEN "exit" ELSE "none"

bucket_animMotion(mot) ==
    LET to_xy == children(mot, "to") IN
    IF to_xy = <<>> THEN "none"
    ELSE LET x == int(get_default(to_xy[1], "x", "0"))
             y == int(get_default(to_xy[1], "y", "0"))
         IN IF x < 0 \/ y < 0 \/ x > OffCanvas \/ y > OffCanvas
            THEN "exit" ELSE "none"

\* 5. <p14:animEffect>: split_anim.py:136-142, pptx_split_anim_inout.py:168-174
bucket_p14(node) ==
    LET cls == lowered(node, "presetClass")
    IN IF cls \in {"entr", "exit"} THEN cls ELSE "none"

\* int(s) returns: s is a decimal numeral with an optional sign; any other
\* text raises ValueError
is_numeral(s) ==
    LET digits == IF Len(s) > 0 /\ CharAt(s, 1) \in {"-", "+"}
                  THEN Rest(s) ELSE s
    IN /\ Len(digits) > 0
       /\ \A i \in 1..Len(digits) :
             \E d \in 1..Len(Decimal) : CharAt(Decimal, d) = CharAt(digits, i)

\* line 112 (inout 134): n.text.lower() raises AttributeError for an
\* <p:attrName> without text, whose text is None
set_raises(s) == \E n \in Range(findall(s, "attrName")) : n.text = None

\* lines 128-129 (inout 160-161): int() raises ValueError for a coordinate
\* that is not an integer
animMotion_raises(mot) ==
    LET to_xy == children(mot, "to") IN
    /\ to_xy # <<>>
    /\ \/ ~is_numeral(get_default(to_xy[1], "x", "0"))
       \/ ~is_numeral(get_default(to_xy[1], "y", "0"))

\* extract_entr_exit_ids has no try block: the exception of one node leaves
\* the function, the loop of split_pptx and the script
extract_raises(slide_xml) ==
    \/ \E s \in Range(findall(slide_xml, "set")) : set_raises(s)
    \/ \E m \in Range(findall(slide_xml, "animMotion")) : animMotion_raises(m)

\* the ids the nodes put in one bucket, buckets[i] being that of nodes[i]
Marked(nodes, buckets, which, v) ==
    UNION {add(spids(nodes[i]), v) :
             i \in {j \in 1..Len(nodes) : buckets[j] = which}}

ClickEffects(xml) ==
    SelectSeq(findall(xml, "cTn"),
              LAMBDA c : get(c, "nodeType") = "clickEffect")

In(xml, which, v) ==
    LET eff == findall(xml, "animEffect")
        cks == ClickEffects(xml)
        sts == findall(xml, "set")
        mot == findall(xml, "animMotion")
        p14 == findall(xml, "p14:animEffect")
    IN Marked(eff, [i \in 1..Len(eff) |-> bucket_animEffect(eff[i])],
              which, v)
       \cup Marked(cks, [i \in 1..Len(cks) |-> bucket_clickEffect(cks[i])],
                   which, v)
       \cup Marked(sts, [i \in 1..Len(sts) |-> bucket_set(sts[i])], which, v)
       \cup Marked(mot, [i \in 1..Len(mot) |-> bucket_animMotion(mot[i])],
                   which, v)
       \cup Marked(p14, [i \in 1..Len(p14) |-> bucket_p14(p14[i])], which, v)

extract_entr_exit_ids(slide_xml, v) ==
    [entr |-> In(slide_xml, "entr", v), exit |-> In(slide_xml, "exit", v)]

(* -------------------- slides of a python-pptx deck ---------------------- *)
\* slide.shapes iterates the children of the shape tree with these tags
ShapeElementTags == {"sp", "grpSp", "graphicFrame", "cxnSp", "pic",
                     "contentPart"}

\* A slide object: its slide id, the <p:spTree> its shapes collection holds,
\* whether <p:cSld> still holds that tree, and the relationships of its part
\* in the order they were added.
SlideObj(sid, spTree, rels) ==
    [sid |-> sid, spTree |-> spTree, attached |-> TRUE, rels |-> rels]

Rel(rId, reltype, target, external) ==
    [rId |-> rId, reltype |-> reltype, target |-> target,
     external |-> external]

LayoutRel == Rel("rId1", "slideLayout", "slideLayout7", FALSE)
ImageRel == Rel("rId2", "image", "image1", FALSE)
\* a slide with notes: the notes slide has the id before the picture's
NotesRel == Rel("rId2", "notesSlide", "notesSlide1", FALSE)
PhotoRel == Rel("rId3", "image", "image2", FALSE)

\* el.get("id") of an element of a shape tree
id_attr(el) == IF el.id >= 1 THEN str_int(el.id) ELSE None

\* the ids of the shapes of a tree, at any depth
ShapeIdsOf(tree) ==
    {str_int(Spid(e)) :
       e \in {x \in Range(Descendants(tree)) :
                x.tag \in ShapeElementTags /\ HasSpid(x)}}

\* the shape with this id is in the slide as it would be saved
Present(slide, id) == slide.attached /\ id \in ShapeIdsOf(slide.spTree)

SlideOf(slides, sid) == slides[CHOOSE i \in 1..Len(slides) : slides[i].sid = sid]

(* ------------------ clone_slide_after / _clone_slide -------------------- *)
RELS_COPY_TYPES == {"image", "chart", "media", "video", "oleObject"}

\* the first "rId<n>" the relationships do not use
next_rId(rels) ==
    "rId" \o str_int(CHOOSE n \in 1..(Len(rels) + 1) :
                /\ \A r \in Range(rels) : r.rId # "rId" \o str_int(n)
                /\ \A m \in 1..(n - 1) :
                      \E r \in Range(rels) : r.rId = "rId" \o str_int(m))

\* part.relate_to(target, reltype, is_external) with a part as target: the
\* relationship is found or added under the next free rId; python-pptx 0.6
\* makes it external when is_external is truthy, python-pptx 1.0 only when
\* the target is a string.
relate_to(rels, target, reltype, is_external, lb) ==
    LET ext == lb = "0.6" /\ is_external # "" /\ is_external # None
    IN IF \E r \in Range(rels) : /\ r.reltype = reltype
                                 /\ r.target = target
                                 /\ r.external = ext
       THEN rels
       ELSE Append(rels, Rel(next_rId(rels), reltype, target, ext))

\* split_anim.py:182-184, the loop over src.part.rels.values()
RECURSIVE copy_rels(_, _, _, _)
copy_rels(src_rels, i, new_rels, lb) ==
    IF i > Len(src_rels) THEN new_rels
    ELSE LET rel == src_rels[i] IN
         copy_rels(src_rels, i + 1,
           IF /\ rel.reltype \in RELS_COPY_TYPES
              /\ \A r \in Range(new_rels) : r.rId # rel.rId
           THEN relate_to(new_rels, rel.target, rel.reltype, rel.rId, lb)
           ELSE new_rels,
           lb)

\* The clone of the slide src: a blank slide is added, its entry moved right
\* after src's, the shapes of src copied into it, and the relationships.
\* pptx_split_anim_inout.py:230 iterates src.part.rels itself, which yields
\* the rIds (str): rel.reltype raises AttributeError on the first of them.
clone_slide_after(slides, src, v, lb) ==
    LET src_idx == CHOOSE i \in 1..Len(slides) : slides[i].sid = src
        s == slides[src_idx]
        new_sid == MaxOf({slides[i].sid : i \in 1..Len(slides)}, 0) + 1
        copied == SelectSeq(s.spTree.kids,
                            LAMBDA k : k.tag \in ShapeElementTags)
        raises == v = "inout" /\ s.rels # <<>>
        rels == IF v = "split_anim"
                THEN copy_rels(s.rels, 1, <<LayoutRel>>, lb)
                ELSE <<LayoutRel>>
        new == SlideObj(new_sid, SpTree(copied), rels)
    IN [slides |-> SubSeq(slides, 1, src_idx) \o <<new>> \o
                   SubSeq(slides, src_idx + 1, Len(slides)),
        new |-> new_sid,
        raises |-> raises]

(* ---------------------- drop_shapes / _drop_shapes ---------------------- *)
\* split_anim.py:198-205, collect: el or one of its descendants carries an
\* id attribute that is in target_ids
RECURSIVE collect(_, _)
collect(el, target_ids) ==
    \/ id_attr(el) \in target_ids
    \/ \E i \in 1..Len(el.kids) : collect(el.kids[i], target_ids)

\* a drop that reads the id attribute of the top-level shape elements only
drop_shapes_own_id(slide, target_ids) ==
    [slide EXCEPT !.spTree.kids =
        SelectSeq(@, LAMBDA k : ~(/\ k.tag \in ShapeElementTags
                                  /\ id_attr(k) \in target_ids))]

\* split_anim.py:192-212: every element collect marked is removed from its
\* parent, the shape tree (whose parent is <p:cSld>) included
drop_shapes(slide, target_ids) ==
    [slide EXCEPT
       !.spTree.kids = SelectSeq(@, LAMBDA k : ~collect(k, target_ids)),
       !.attached = @ /\ ~collect(slide.spTree, target_ids)]

\* pptx_split_anim_inout.py:246-250
drop_shapes_inout(slide, ids) ==
    [slide EXCEPT !.spTree.kids =
        SelectSeq(@, LAMBDA k : ~(/\ k.tag \in ShapeElementTags
                                  /\ str(id_attr(k)) \in ids))]

DropShapes(v, slide, ids) ==
    IF v = "split_anim" THEN drop_shapes(slide, ids)
    ELSE drop_shapes_inout(slide, ids)

Replace(slides, sid, new) ==
    [i \in 1..Len(slides) |-> IF slides[i].sid = sid THEN new ELSE slides[i]]

(* ------------------------------ the deck -------------------------------- *)
SlideType == "slide"
SetOn(c, spid, to) ==
    [attr |-> TRUE, tgt |-> "ok", spid |-> spid, to |-> to, ctn |-> c]

\* a relationship file of a slide
SlideRels == {[rid |-> RIdPrefix \o <<"1">>, type |-> "slideLayout"],
              [rid |-> RIdPrefix \o <<"2">>, type |-> "image"]}

\* The slides a deck is made of: a static one without relationship file, one
\* with a single step, the scenario of the specification (two steps), and one
\* whose steps interleave in document order.
SlideMenu ==
    {[tree |-> SpTree(<<Sp(2), Pic(3)>>), timing |-> <<>>, rels |-> <<>>],
     [tree |-> SpTree(<<Sp(2), Sp(3)>>),
      timing |-> <<SetOn("A", 2, "visible")>>, rels |-> <<SlideRels>>],
     [tree |-> SpTree(<<Sp(2), Sp(3), Sp(4)>>),
      timing |-> <<SetOn("A", 3, "visible"), SetOn("B", 4, "hidden")>>,
      rels |-> <<SlideRels>>],
     [tree |-> SpTree(<<Sp(2), Pic(3), Sp(4)>>),
      timing |-> <<SetOn("A", 2, "visible"), SetOn("B", 3, "visible"),
                   SetOn("A", 4, "hidden")>>,
      rels |-> <<>>]}

Part(m) == [tree |-> m.tree, timing |-> m.timing]

SlideTarget(num) == [dir |-> "slides", num |-> num]

\* A deck of n listed slides.  c.slides: the slide of each entry; c.rev: part
\* numbers run against deck order; c.orphan: a slide part no relationship
\* names, at number n + c.orphan (0: none); c.master: the slide master's
\* relationship has the lowest or the highest number; c.rot: where the
\* highest slide-list id stands; c.broken: the last entry names a
\* relationship id the relationship file does not have ("dangling"), or the
\* slide part of the last entry is not in the archive ("missing"), or the
\* relationship of the last entry is a notes slide's, not a slide's
\* ("foreign").  The broken decks have no orphan and their ids in list order.
DeckChoices(n) ==
    {c \in [slides : [1..n -> SlideMenu], rev : BOOLEAN, orphan : 0..2,
            master : {"low", "high"}, rot : 0..(n - 1),
            broken : {"none", "dangling", "missing", "foreign"}] :
        c.broken # "none" => (c.orphan = 0 /\ c.rot = 0)}

PartNumOf(n, c, i) == IF c.rev THEN n + 1 - i ELSE i
RelNumOf(n, c, i) == IF c.master = "low" THEN i + 1 ELSE i
MasterRel(n, c) ==
    [Id |-> <<"R", "0">> \o ToStr(IF c.master = "low" THEN 1 ELSE n + 1),
     Target |-> [dir |-> "slideMasters", num |-> 1], Type |-> "slideMaster"]

\* The files of the archive outside ppt/slides, presentation.xml and its
\* relationship file aside: the content types (one override per slide part),
\* the theme, the master, and a notes slide for each slide with relationships.
OtherParts(n, c) ==
    LET parts == (1..n) \cup (IF c.orphan = 0 THEN {} ELSE {n + c.orphan})
        noted == {PartNumOf(n, c, i) :
                    i \in {j \in 1..n : c.slides[j].rels # <<>>}}
    IN (<<"[Content_Types].xml">> :> [overrides |-> parts])
       @@ (<<"ppt", "theme", "theme1.xml">> :> [theme |-> 1])
       @@ (<<"ppt", "slideMasters", "slideMaster1.xml">> :>
             [master |-> c.master])
       @@ [f \in {<<"ppt", "notesSlides", q>> : q \in noted} |->
             [notes_of |-> f[3]]]

Deck(n, c) ==
    [is_file |-> TRUE,
     sldIdLst |-> [i \in 1..n |->
                      [id |-> ((i + c.rot) % n) + 1,
                       rid |-> RIdPrefix \o
                               ToStr(IF i = n /\ c.broken = "dangling"
                                     THEN n + 3 ELSE RelNumOf(n, c, i))]],
     pres_rels |-> <<MasterRel(n, c)>> \o
                   [i \in 1..n |->
                      IF i = n /\ c.broken = "foreign"
                      THEN [Id |-> RIdPrefix \o ToStr(RelNumOf(n, c, i)),
                            Target |-> [dir |-> "notesSlides", num |-> 1],
                            Type |-> "notesSlide"]
                      ELSE [Id |-> RIdPrefix \o ToStr(RelNumOf(n, c, i)),
                            Target |-> SlideTarget(PartNumOf(n, c, i)),
                            Type |-> SlideType]],
     slides_dir |-> [p \in ((1..n) \cup (IF c.orphan = 0 THEN {}
                                          ELSE {n + c.orphan}))
                           \ (IF c.broken \in {"missing", "foreign"}
                              THEN {PartNumOf(n, c, n)} ELSE {}) |->
                       IF p <= n
                       THEN Part(c.slides[CHOOSE i \in 1..n :
                                             PartNumOf(n, c, i) = p])
                       ELSE [tree |-> SpTree(<<Sp(9)>>), timing |-> <<>>]],
     rels_dir |-> [p \in {PartNumOf(n, c, i) :
                            i \in {j \in 1..n : c.slides[j].rels # <<>>}} |->
                     SlideRels],
     others |-> OtherParts(n, c)]

\* new.py:175
RelInfoOf(rels) ==
    [k \in {rels[i].Id : i \in 1..Len(rels)} |->
        LET r == rels[CHOOSE i \in 1..Len(rels) :
                        /\ rels[i].Id = k
                        /\ \A j \in (i + 1)..Len(rels) : rels[j].Id # k]
        IN [target |-> r.Target, type |-> r.Type]]

\* new.py:177-182
MaxSlideNum(info) ==
    MaxOf({info[k].target.num :
             k \in {x \in DOMAIN info : /\ info[x].type = SlideType
                                        /\ info[x].target.dir = "slides"}}, 0)

\* new.py:184
MaxSldId(lst) == MaxOf({lst[i].id : i \in 1..Len(lst)}, 0)

NoEntry == [id |-> 0, rid |-> <<>>]
NoPart == [tree |-> El("none", 0, <<>>), timing |-> <<>>]
NoOutput == [written |-> FALSE, complete |-> FALSE]

\* INPUT_PPTX is not a file
NoFile ==
    [is_file |-> FALSE, sldIdLst |-> <<>>, pres_rels |-> <<>>,
     slides_dir |-> EmptyDict, rels_dir |-> EmptyDict, others |-> EmptyDict]

\* the state when main is called: INPUT_PPTX is a deck or is not there
DeckInit ==
    /\ \/ input = NoFile
       \/ \E n \in 1..MaxSlides : \E c \in DeckChoices(n) : input = Deck(n, c)
    /\ sldIdLst = <<>> /\ pres_rels = <<>>
    /\ relinfo = EmptyDict /\ slides_dir = EmptyDict /\ rels_dir = EmptyDict
    /\ others = EmptyDict
    /\ max_slide_num = 0 /\ max_sldId = 0 /\ todo = <<>> /\ sldId = NoEntry
    /\ slide_tree = NoPart /\ slide_path = 0 /\ pending = <<>>
    /\ output = NoOutput /\ built = EmptyDict /\ log = <<>>

\* lines 155-184: the archive is extracted, the two deck-level files parsed,
\* the index and the two maxima computed; FileNotFoundError without a file
Open ==
    /\ pc = "open"
    /\ IF ~input.is_file
       THEN /\ pc' = "aborted"
            /\ UNCHANGED <<sldIdLst, pres_rels, relinfo, slides_dir, rels_dir,
                           others, max_slide_num, max_sldId, todo>>
       ELSE /\ pc' = "slide"
            /\ sldIdLst' = input.sldIdLst
            /\ pres_rels' = input.pres_rels
            /\ relinfo' = RelInfoOf(input.pres_rels)
            /\ slides_dir' = input.slides_dir
            /\ rels_dir' = input.rels_dir
            /\ others' = input.others
            /\ max_slide_num' = MaxSlideNum(RelInfoOf(input.pres_rels))
            /\ max_sldId' = MaxSldId(input.sldIdLst)
            /\ todo' = input.sldIdLst
    /\ UNCHANGED <<shapes, events, ctn_to_serial, step_serial, ctn, snapshots,
                   snaps, variant, sldId, slide_tree, slide_path, pending,
                   output, input, built, log>>
    /\ UNCHANGED <<splitVars, matVars, clsVars>>

\* no deck: the state of the deck variables while one slide is studied
DeckIdle ==
    /\ variant = "new"
    /\ input = NoFile /\ sldIdLst = <<>> /\ pres_rels = <<>>
    /\ relinfo = EmptyDict /\ slides_dir = EmptyDict /\ rels_dir = EmptyDict
    /\ others = EmptyDict
    /\ max_slide_num = 0 /\ max_sldId = 0 /\ todo = <<>> /\ sldId = NoEntry
    /\ slide_tree = NoPart /\ slide_path = 0 /\ pending = <<>>
    /\ output = NoOutput /\ built = EmptyDict /\ log = <<>>

\* the new entry put in the place of el (replace instead of addnext)
addnext_replace(lst, el, new) ==
    LET p == CHOOSE i \in 1..Len(lst) : lst[i] = el
    IN SubSeq(lst, 1, p - 1) \o <<new>> \o SubSeq(lst, p + 1, Len(lst))

\* the new entry put at the end of the list instead
addnext_at_end(lst, el, new) == Append(lst, new)

\* sldId.addnext(new): new becomes the sibling right after el
addnext(lst, el, new) ==
    LET p == CHOOSE i \in 1..Len(lst) : lst[i] = el
    IN SubSeq(lst, 1, p) \o <<new>> \o SubSeq(lst, p + 1, Len(lst))

\* the snapshots of the slide, by the script in use
SnapshotsOf(v, shps, evs) ==
    IF v = "new" THEN build_snapshots(shps, evs)
    ELSE [snaps |-> build_snapshots_split_slide(shps, evs),
          applied |-> [i \in 1..(Len(evs) + 1) |-> i - 1]]

\* lines 187-193 with relinfo.get and an existence test: an entry that does
\* not resolve is passed over
resolve_lenient(info, dir, e) ==
    IF e.rid \notin DOMAIN info THEN "continue"
    ELSE IF info[e.rid].type # SlideType THEN "continue"
    ELSE IF info[e.rid].target.num \notin DOMAIN dir THEN "continue"
    ELSE "slide"

\* lines 187-193: relinfo[relId] raises KeyError for an id the index does
\* not have; an entry of another type is passed over; ET.parse raises OSError
\* for a slide part that is not there
resolve(info, dir, e) ==
    IF e.rid \notin DOMAIN info THEN "KeyError"
    ELSE IF info[e.rid].type # SlideType THEN "continue"
    ELSE IF info[e.rid].target.num \notin DOMAIN dir THEN "OSError"
    ELSE "slide"

\* One iteration of the for loop of line 186 up to line 206: the entry is
\* resolved, the slide parsed and classified, and snapshot 0 (or the static
\* slide) written over the slide part.  An exception ends the run.
StartSlide ==
    /\ pc = "slide"
    /\ todo # <<>>
    /\ LET e == Head(todo)
           how == resolve(relinfo, slides_dir, e)
           rel == relinfo[e.rid]
           path == rel.target.num
           tree == slides_dir[path]
           shps == collect_shapes(tree.tree, variant)
       IN /\ todo' = Tail(todo)
          /\ IF how \in {"KeyError", "OSError"}
             THEN /\ pc' = "aborted"
                  /\ UNCHANGED <<shapes, events, snapshots, slides_dir, sldId,
                                 slide_tree, slide_path, pending, built>>
             ELSE IF how = "continue"
             THEN UNCHANGED <<pc, shapes, events, snapshots, slides_dir, sldId,
                              slide_tree, slide_path, pending, built>>
             ELSE \E evs \in collect_visibility_events(tree.timing) :
                  /\ sldId' = e
                  /\ slide_path' = path
                  /\ slide_tree' = tree
                  /\ shapes' = shps
                  /\ events' = evs
                  /\ IF evs = <<>>
                     THEN /\ slides_dir' = DictSet(slides_dir, path,
                               materialise_snapshot(tree, [x \in shps |-> TRUE],
                                                    variant))
                          /\ built' = DictSet(built, e.id,
                               [tree |-> tree,
                                snaps |-> <<[x \in shps |-> TRUE]>>])
                          /\ UNCHANGED <<pc, snapshots, pending>>
                     ELSE LET sn == SnapshotsOf(variant, shps, evs) IN
                          /\ snapshots' = sn
                          /\ slides_dir' = DictSet(slides_dir, path,
                               materialise_snapshot(tree, sn.snaps[1], variant))
                          /\ built' = DictSet(built, e.id,
                               [tree |-> tree, snaps |-> sn.snaps])
                          /\ pending' = Tail(sn.snaps)
                          /\ pc' = "snapshot"
    /\ UNCHANGED <<ctn_to_serial, step_serial, ctn, snaps, variant, sldIdLst,
                   pres_rels, relinfo, rels_dir, others, max_slide_num,
                   max_sldId, output, input, log>>
    /\ UNCHANGED <<splitVars, matVars, clsVars>>

\* One iteration of the inner loop, lines 209-233: the snapshot is written
\* as a new slide part, the relationship file copied, a relationship and a
\* slide-list entry added after the last one of this source.
InsertSnapshot ==
    /\ pc = "snapshot"
    /\ pending # <<>>
    /\ LET num == max_slide_num + 1
           new_relId == next_numeric_id(DOMAIN relinfo, RIdPrefix)
           rel_el == [Id |-> new_relId, Type |-> SlideType,
                      Target |-> SlideTarget(num)]
           new_sldId_el == [id |-> max_sldId + 1, rid |-> new_relId]
       IN /\ max_slide_num' = num
          /\ slides_dir' = DictSet(slides_dir, num,
                materialise_snapshot(slide_tree, Head(pending), variant))
          /\ rels_dir' = IF slide_path \in DOMAIN rels_dir
                         THEN DictSet(rels_dir, num, rels_dir[slide_path])
                         ELSE rels_dir
          /\ pres_rels' = Append(pres_rels, rel_el)
          /\ relinfo' = DictSet(relinfo, new_relId,
                                [target |-> rel_el.Target, type |-> rel_el.Type])
          /\ max_sldId' = max_sldId + 1
          /\ sldIdLst' = addnext(sldIdLst, sldId, new_sldId_el)
          /\ sldId' = new_sldId_el
          /\ log' = Append(log,
                [src |-> input.sldIdLst[Len(input.sldIdLst) - Len(todo)].id,
                 k |-> Len(snapshots.snaps) - Len(pending),
                 part |-> num, rid |-> new_relId, id |-> max_sldId + 1])
    /\ pending' = Tail(pending)
    /\ pc' = IF Len(pending) = 1 THEN "slide" ELSE "snapshot"
    /\ UNCHANGED <<shapes, events, ctn_to_serial, step_serial, ctn, snapshots,
                   snaps, variant, others, todo, slide_tree, slide_path, output,
                   input, built>>
    /\ UNCHANGED <<splitVars, matVars, clsVars>>

\* The files os.walk finds under the extracted tree, as the archive holds
\* them: the two deck-level files, the slide parts, their relationship files
\* and every other file.
EmptyArchive ==
    [sldIdLst |-> <<>>, pres_rels |-> <<>>, slides_dir |-> EmptyDict,
     rels_dir |-> EmptyDict, others |-> EmptyDict]

\* the walk started at ppt_path instead of tmpdir: the files of the root of
\* the tree are not found
walk_from_ppt(tmpdir) ==
    [tmpdir EXCEPT !.others =
        [f \in {g \in DOMAIN tmpdir.others : g[1] = "ppt"} |->
            tmpdir.others[f]]]

\* lines 240-243: os.walk(tmpdir), every file under its relative path
walk(tmpdir) ==
    tmpdir

\* lines 235-239: presentation.xml and its relationships are written to the
\* extracted tree and zipfile.ZipFile(OUTPUT_PPTX, "w") creates (or
\* truncates) the file at the destination
Save ==
    /\ pc = "slide"
    /\ todo = <<>>
    /\ pc' = "zip"
    /\ output' = [written |-> TRUE, complete |-> FALSE] @@ EmptyArchive
    /\ UNCHANGED <<shapes, events, ctn_to_serial, step_serial, ctn, snapshots,
                   snaps, variant, sldIdLst, pres_rels, relinfo, slides_dir,
                   rels_dir, others, max_slide_num, max_sldId, todo, sldId,
                   slide_tree, slide_path, pending, input, built, log>>
    /\ UNCHANGED <<splitVars, matVars, clsVars>>

\* lines 240-243: the members are written to the destination one after the
\* other; the central directory is not written yet
ZipWrite ==
    /\ pc = "zip"
    /\ pc' = "zipped"
    /\ output' = [written |-> TRUE, complete |-> FALSE]
                 @@ walk([sldIdLst |-> sldIdLst, pres_rels |-> pres_rels,
                          slides_dir |-> slides_dir, rels_dir |-> rels_dir,
                          others |-> others])
    /\ UNCHANGED <<shapes, events, ctn_to_serial, step_serial, ctn, snapshots,
                   snaps, variant, sldIdLst, pres_rels, relinfo, slides_dir,
                   rels_dir, others, max_slide_num, max_sldId, todo, sldId,
                   slide_tree, slide_path, pending, input, built, log>>
    /\ UNCHANGED <<splitVars, matVars, clsVars>>

\* line 239, leaving the with block: ZipFile.close writes the central
\* directory, which makes the file an archive
ZipClose ==
    /\ pc = "zipped"
    /\ pc' = "saved"
    /\ output' = [output EXCEPT !.complete = TRUE]
    /\ UNCHANGED <<shapes, events, ctn_to_serial, step_serial, ctn, snapshots,
                   snaps, variant, sldIdLst, pres_rels, relinfo, slides_dir,
                   rels_dir, others, max_slide_num, max_sldId, todo, sldId,
                   slide_tree, slide_path, pending, input, built, log>>
    /\ UNCHANGED <<splitVars, matVars, clsVars>>

\* The process is killed while the archive is written (lines 239-243): the
\* TemporaryDirectory is cleaned at most; nothing touches OUTPUT_PPTX again.
Crash ==
    /\ pc \in {"zip", "zipped"}
    /\ pc' = "crashed"
    /\ UNCHANGED <<shapes, events, ctn_to_serial, step_serial, ctn, snapshots,
                   snaps>>
    /\ UNCHANGED <<deckVars, splitVars, matVars, clsVars>>

(* -------------------- materialise_snapshot on its own ------------------- *)
GraphicFrame(id) ==
    El("graphicFrame", 0, <<El("nvGraphicFramePr", 0, <<cNvPr(id)>>)>>)

\* The shape trees materialise_snapshot is applied to: plain shapes of the
\* three kinds; a group among plain shapes; a group in a group; a shape
\* whose id is not a number and one without <p:cNvPr>.
TreeMenu ==
    {SpTree(<<Sp(2), Pic(3), GraphicFrame(4)>>),
     SpTree(<<Sp(2), GrpSp(5, <<Sp(3), Pic(4)>>)>>),
     SpTree(<<GrpSp(5, <<GrpSp(4, <<Sp(2)>>), Sp(3)>>)>>),
     SpTree(<<Sp(2), Sp(0 - 1), El("sp", 0, <<>>), Pic(3)>>)}

MatIds == 2..5

\* the snapshots: every map from some of the ids to bool
MapMenu == UNION {[d -> BOOLEAN] : d \in SUBSET MatIds}

NoTree == El("none", 0, <<>>)

MatInit ==
    /\ mat_variant \in {"new", "split_slide"}
    /\ mat_tree \in TreeMenu
    /\ mat_map \in MapMenu
    /\ mat_out = NoTree

\* materialise_snapshot not called
MatIdle ==
    /\ mat_variant = "new" /\ mat_tree = NoTree
    /\ mat_map = EmptyDict /\ mat_out = NoTree

\* materialise_snapshot(orig_tree, visible_map)
Materialise ==
    /\ pc = "materialise"
    /\ pc' = "materialised"
    /\ mat_out' = materialise_snapshot([tree |-> mat_tree, timing |-> <<>>],
                                       mat_map, mat_variant).tree
    /\ UNCHANGED <<mat_variant, mat_tree, mat_map>>
    /\ UNCHANGED <<shapes, events, ctn_to_serial, step_serial, ctn, snapshots,
                   snaps>>
    /\ UNCHANGED <<deckVars, splitVars, clsVars>>

(* ---------------- extract_entr_exit_ids on its own ---------------------- *)
Entr == "presetClass" :> "entr"
Exit == "presetClass" :> "exit"

\* a <p:set> on one attribute of shape 2: the attribute name under
\* <p:cBhvr> (as PowerPoint writes it) or as a child of the node, the target
\* value in <p:to><p:strVal>, or no <p:to> at all
SetNode(flat, name, val) ==
    IF val = None
    THEN Node("set", NoAttrs, None,
              IF flat THEN <<AttrName(name), TgtEl("2")>>
              ELSE <<CBhvr(TgtEl("2"), <<AttrName(name)>>)>>)
    ELSE IF flat THEN FlatSet("2", name, val) ELSE Set("2", name, val)

AttrNames == {"style.visibility", "Style.Visibility", "opacity",
              "style.opacity", "ppt_x"}
ToValues == {None, "hidden", "visible", "0", "0.0", "0.00", "1", "0.5"}
Coordinates == {"-1", "0", "100000", "100001", "0.5"}
Visibilities == {"hidden", "visible"}

\* The timings the classifier is applied to: one <p:set>; one motion path
\* of shape 2, with a destination or without; a click container, with an
\* effect class or without, that holds a visibility set for shape 2 and one
\* for shape 3.
ClassMenu ==
    {Timing(<<SetNode(f, a, t)>>) :
        f \in BOOLEAN, a \in AttrNames, t \in ToValues}
    \cup {Timing(<<AnimMotion("2", <<Node("to", ("x" :> x) @@ ("y" :> y),
                                          None, <<>>)>>)>>) :
             x \in Coordinates, y \in Coordinates}
    \cup {Timing(<<AnimMotion("2", <<Node("to", "y" :> y, None, <<>>)>>)>>) :
             y \in Coordinates}
    \cup {Timing(<<AnimMotion("2", <<>>)>>)}
    \cup {Timing(<<ClickEffect(c, <<FlatSet("2", "style.visibility", a),
                                   FlatSet("3", "style.visibility", b)>>)>>) :
             c \in {NoAttrs, Entr, Exit}, a \in Visibilities,
             b \in Visibilities}

NoIds == [entr |-> {}, exit |-> {}]

ClassInit ==
    /\ cls_script \in {"split_anim", "inout"}
    /\ cls_xml \in ClassMenu
    /\ cls_out = NoIds

\* extract_entr_exit_ids not called
ClassIdle ==
    /\ cls_script = "split_anim"
    /\ cls_xml = Timing(<<>>)
    /\ cls_out = NoIds

\* extract_entr_exit_ids(slide_xml): the two sets, or the exception of a
\* node
Classify ==
    /\ pc = "classify"
    /\ IF extract_raises(cls_xml)
       THEN pc' = "classify_failed" /\ UNCHANGED cls_out
       ELSE /\ pc' = "classified"
            /\ cls_out' = extract_entr_exit_ids(cls_xml, cls_script)
    /\ UNCHANGED <<cls_script, cls_xml>>
    /\ UNCHANGED <<shapes, events, ctn_to_serial, step_serial, ctn, snapshots,
                   snaps>>
    /\ UNCHANGED <<deckVars, splitVars, matVars>>

(* --------------------- the Before/After split --------------------------- *)
Visible(spid) == Set(spid, "style.visibility", "visible")
Hidden(spid) == Set(spid, "style.visibility", "hidden")

\* The slides a deck to split is made of: a static one; one shape entering
\* and one leaving beside an unanimated one; a shape that enters and then
\* leaves, on a slide without relationships; effects of the other kinds on a
\* slide with a group and a picture; a click container without effect class,
\* on a slide with notes and a picture;
\* an entrance beside a <p:set> whose <p:attrName> has no text; an exit beside
\* a motion path whose destination is not written in integers.
SplitMenu ==
    {[tree |-> SpTree(<<Sp(2), Pic(3)>>), timing |-> Timing(<<>>),
      rels |-> <<LayoutRel>>],
     [tree |-> SpTree(<<Sp(2), Sp(3), Sp(4)>>),
      timing |-> Timing(<<ClickEffect(Entr, <<Visible("2")>>),
                          ClickEffect(Exit, <<Hidden("3")>>)>>),
      rels |-> <<LayoutRel>>],
     [tree |-> SpTree(<<Sp(2), Sp(3)>>),
      timing |-> Timing(<<ClickEffect(Entr, <<Visible("2")>>),
                          ClickEffect(Exit, <<Hidden("2")>>)>>),
      rels |-> <<>>],
     [tree |-> SpTree(<<GrpSp(5, <<Sp(2), Sp(3)>>), Pic(4)>>),
      timing |-> Timing(<<
         AnimEffect("animEffect", "presetClass" :> "Entr", TgtEl("2")),
         AnimEffect("animEffect", "filter" :> "out:fade",
                    Node("tgtEl", NoAttrs, None, <<SpTgt(NoAttrs)>>)),
         AnimMotion("4", <<Node("to", ("x" :> "200000") @@ ("y" :> "0"),
                                None, <<>>)>>),
         AnimEffect("p14:animEffect", "presetClass" :> "exit", TgtEl("4")),
         Set("3", "Style.Opacity", "1")>>),
      rels |-> <<LayoutRel, ImageRel>>],
     [tree |-> SpTree(<<Sp(2), Sp(3)>>),
      timing |-> Timing(<<ClickEffect(NoAttrs,
                             <<FlatSet("3", "style.visibility", "hidden")>>)>>),
      rels |-> <<LayoutRel, NotesRel, PhotoRel>>],
     [tree |-> SpTree(<<Sp(2), Sp(3)>>),
      timing |-> Timing(<<ClickEffect(Entr, <<Visible("2")>>),
                          Node("set", NoAttrs, None,
                               <<CBhvr(TgtEl("3"), <<AttrName(None)>>)>>)>>),
      rels |-> <<LayoutRel>>],
     [tree |-> SpTree(<<Sp(2), Pic(3)>>),
      timing |-> Timing(<<ClickEffect(Exit, <<Hidden("2")>>),
                          AnimMotion("3", <<Node("to", ("x" :> "0.5") @@
                                                       ("y" :> "0"),
                                                 None, <<>>)>>)>>),
      rels |-> <<LayoutRel>>]}

\* A deck of n slides.  c.slides: the slide at each place of the slide list;
\* c.rev: the part names run against the order of the slide list.  Each
\* slide part knows the slide (sid) it is the part of.
SplitChoices(n) == [slides : [1..n -> SplitMenu], rev : BOOLEAN]

NoSaved == [written |-> FALSE]

SplitInit ==
    \E n \in 1..MaxSlides : \E c \in SplitChoices(n) :
        /\ prs = [i \in 1..n |->
                    SlideObj(i, c.slides[i].tree, c.slides[i].rels)]
        /\ slide_parts = [p \in 1..n |->
                            LET m == c.slides[IF c.rev THEN n + 1 - p ELSE p]
                            IN [num |-> p, tree |-> m.tree,
                                timing |-> m.timing,
                                sid |-> IF c.rev THEN n + 1 - p ELSE p]]
        /\ idx = 1
        /\ ids_in = {} /\ ids_out = {}
        /\ src_slide = 0 /\ before = 0 /\ after = 0
        /\ splits = <<>>
        /\ saved = NoSaved

\* no deck to split
SplitIdle ==
    /\ script = "split_anim" /\ lib = "1.0"
    /\ prs = <<>> /\ slide_parts = <<>> /\ idx = 1
    /\ ids_in = {} /\ ids_out = {}
    /\ src_slide = 0 /\ before = 0 /\ after = 0
    /\ splits = <<>> /\ saved = NoSaved

\* split_anim.py:226-233 (pptx_split_anim_inout.py:260-268): the next part
\* is classified; a part without entrance and exit ids is passed over,
\* otherwise the slide at that place of the deck is the source.
ScanSlide ==
    /\ pc = "scan"
    /\ idx <= Len(slide_parts)
    /\ LET ids == extract_entr_exit_ids(slide_parts[idx].timing, script) IN
       IF extract_raises(slide_parts[idx].timing)
       THEN /\ pc' = "classify_failed"
            /\ UNCHANGED <<idx, ids_in, ids_out, src_slide>>
       ELSE IF ids.entr = {} /\ ids.exit = {}
       THEN /\ idx' = idx + 1
            /\ UNCHANGED <<pc, ids_in, ids_out, src_slide>>
       ELSE /\ ids_in' = ids.entr
            /\ ids_out' = ids.exit
            /\ src_slide' = prs[idx].sid
            /\ pc' = "clone_before"
            /\ UNCHANGED idx
    /\ UNCHANGED <<script, lib, prs, slide_parts, before, after, splits, saved>>
    /\ UNCHANGED <<shapes, events, ctn_to_serial, step_serial, ctn, snapshots,
                   snaps>>
    /\ UNCHANGED <<deckVars, matVars, clsVars>>

\* split_anim.py:235 (pptx_split_anim_inout.py:270)
CloneBefore ==
    /\ pc = "clone_before"
    /\ LET c == clone_slide_after(prs, src_slide, script, lib) IN
       /\ prs' = c.slides
       /\ before' = c.new
       /\ pc' = IF c.raises THEN "crashed"
                ELSE IF script = "split_anim" THEN "drop_before"
                ELSE "clone_after"
    /\ UNCHANGED <<script, lib, slide_parts, idx, ids_in, ids_out, src_slide,
                   after, splits, saved>>
    /\ UNCHANGED <<shapes, events, ctn_to_serial, step_serial, ctn, snapshots,
                   snaps>>
    /\ UNCHANGED <<deckVars, matVars, clsVars>>

\* split_anim.py:236 (pptx_split_anim_inout.py:275)
DropBefore ==
    /\ pc = "drop_before"
    /\ prs' = Replace(prs, before,
                      DropShapes(script, SlideOf(prs, before), ids_in))
    /\ pc' = IF script = "split_anim" THEN "clone_after" ELSE "drop_after"
    /\ UNCHANGED <<script, lib, slide_parts, idx, ids_in, ids_out, src_slide,
                   before, after, splits, saved>>
    /\ UNCHANGED <<shapes, events, ctn_to_serial, step_serial, ctn, snapshots,
                   snaps>>
    /\ UNCHANGED <<deckVars, matVars, clsVars>>

\* split_anim.py:239, from the source (pptx_split_anim_inout.py:271, from
\* the Before slide)
CloneAfter ==
    /\ pc = "clone_after"
    /\ LET from == IF script = "split_anim" THEN src_slide ELSE before
           c == clone_slide_after(prs, from, script, lib)
       IN /\ prs' = c.slides
          /\ after' = c.new
          /\ pc' = IF c.raises THEN "crashed"
                   ELSE IF script = "split_anim" THEN "drop_after"
                   ELSE "drop_before"
    /\ UNCHANGED <<script, lib, slide_parts, idx, ids_in, ids_out, src_slide,
                   before, splits, saved>>
    /\ UNCHANGED <<shapes, events, ctn_to_serial, step_serial, ctn, snapshots,
                   snaps>>
    /\ UNCHANGED <<deckVars, matVars, clsVars>>

\* split_anim.py:240 (pptx_split_anim_inout.py:276), the end of the loop
\* body
DropAfter ==
    /\ pc = "drop_after"
    /\ prs' = Replace(prs, after,
                      DropShapes(script, SlideOf(prs, after), ids_out))
    /\ splits' = Append(splits,
                   [part |-> slide_parts[idx].num,
                    shapes |-> ShapeIdsOf(slide_parts[idx].tree),
                    ids_in |-> ids_in, ids_out |-> ids_out,
                    src |-> src_slide, before |-> before, after |-> after])
    /\ idx' = idx + 1
    /\ pc' = "scan"
    /\ UNCHANGED <<script, lib, slide_parts, ids_in, ids_out, src_slide,
                   before, after, saved>>
    /\ UNCHANGED <<shapes, events, ctn_to_serial, step_serial, ctn, snapshots,
                   snaps>>
    /\ UNCHANGED <<deckVars, matVars, clsVars>>

\* prs.save, split_anim.py:244 (pptx_split_anim_inout.py:284): writing the
\* relationships of a part raises TypeError on an external relationship
\* whose target is a part and not a string
SaveSplit ==
    /\ pc = "scan"
    /\ idx > Len(slide_parts)
    /\ IF \E i \in 1..Len(prs) : \E r \in Range(prs[i].rels) : r.external
       THEN pc' = "crashed" /\ UNCHANGED saved
       ELSE pc' = "saved" /\ saved' = [written |-> TRUE, slides |-> prs]
    /\ UNCHANGED <<script, lib, prs, slide_parts, idx, ids_in, ids_out,
                   src_slide, before, after, splits>>
    /\ UNCHANGED <<shapes, events, ctn_to_serial, step_serial, ctn, snapshots,
                   snaps>>
    /\ UNCHANGED <<deckVars, matVars, clsVars>>

SpecSplitInit ==
    /\ pc = "scan"
    /\ script \in {"split_anim", "inout"}
    /\ lib \in {"0.6", "1.0"}
    /\ SplitInit
    /\ shapes = {}
    /\ CollectInit
    /\ snapshots = NotBuilt
    /\ snaps = <<>>
    /\ DeckIdle
    /\ MatIdle
    /\ ClassIdle

SplitNext ==
    ScanSlide \/ CloneBefore \/ DropBefore \/ CloneAfter \/ DropAfter
    \/ SaveSplit

SpecSplit == SpecSplitInit /\ [][SplitNext]_vars

SpecMatInit ==
    /\ pc = "materialise"
    /\ MatInit
    /\ shapes = {}
    /\ CollectInit
    /\ snapshots = NotBuilt
    /\ snaps = <<>>
    /\ DeckIdle
    /\ SplitIdle
    /\ ClassIdle

MatNext == Materialise

SpecMat == SpecMatInit /\ [][MatNext]_vars

SpecClassInit ==
    /\ pc = "classify"
    /\ ClassInit
    /\ shapes = {}
    /\ CollectInit
    /\ snapshots = NotBuilt
    /\ snaps = <<>>
    /\ DeckIdle
    /\ SplitIdle
    /\ MatIdle

ClassNext == Classify

SpecClass == SpecClassInit /\ [][ClassNext]_vars

SpecDeckInit ==
    /\ pc = "open"
    /\ variant \in {"new", "split_slide"}
    /\ shapes = {}
    /\ CollectInit
    /\ snapshots = NotBuilt
    /\ snaps = <<>>
    /\ DeckInit
    /\ SplitIdle
    /\ MatIdle
    /\ ClassIdle

DeckNext ==
    Open \/ StartSlide \/ InsertSnapshot \/ Save \/ ZipWrite \/ ZipClose \/ Crash

SpecDeck == SpecDeckInit /\ [][DeckNext]_vars

SnapInit ==
    /\ pc = "collect"
    /\ shapes \in ShapeSets
    /\ CollectInit
    /\ snapshots = NotBuilt
    /\ snaps = <<>>
    /\ DeckIdle
    /\ SplitIdle
    /\ MatIdle
    /\ ClassIdle

SnapNext == CollectStep \/ Build

SpecSnap == SnapInit /\ [][SnapNext]_vars

(* ------------------------- claims, SpecSnap ---------------------------- *)
Built == pc = "built"

\* step keys of the event list
StepKeys == {events[i].step : i \in 1..Len(events)}

\* the first event (in event order) that targets id makes it visible
FirstEventShows(id) ==
    \E i \in 1..Len(events) :
        /\ events[i].spid = id /\ events[i].visible
        /\ \A j \in 1..(i - 1) : events[j].spid # id

MapsToFalse(snap, id) == id \in DOMAIN snap /\ ~snap[id]
MapsToTrue(snap, id) == id \in DOMAIN snap /\ snap[id]

\* C1: in timeline mode a slide whose event list has k >= 1 distinct step
\* keys, in whatever document order, yields exactly k + 1 snapshots.
C1_SnapshotCount ==
    (Built /\ StepKeys # {}) =>
        Len(snapshots.snaps) = Cardinality(StepKeys) + 1

EntranceStartsHidden(snap0) ==
    /\ \A id \in TargetIds \cup shapes \cup DOMAIN snap0 :
          MapsToFalse(snap0, id) <=> FirstEventShows(id)
    /\ \A id \in shapes : ~FirstEventShows(id) => MapsToTrue(snap0, id)

\* C2: snapshot 0 maps an id to false exactly when the id is targeted and
\* its first event sets it visible; every other shape of the slide is mapped
\* to true (new.py and split_slide.py alike).
C2_EntranceStartsHidden ==
    Built => /\ EntranceStartsHidden(snapshots.snaps[1])
             /\ EntranceStartsHidden(snaps[1])

\* C2 witness: a shape hidden at first because its first event shows it
\* (a later event hides it again), beside a shape whose first event hides
\* it and an untargeted shape, both visible at first.
C2_Witness ==
    /\ Built
    /\ shapes = {2, 3, 4}
    /\ Len(events) = 3
    /\ FirstEventShows(2)
    /\ \E i \in 2..3 : events[i].spid = 2 /\ ~events[i].visible
    /\ \E i \in 1..3 : events[i].spid = 3
    /\ ~FirstEventShows(3)
    /\ snapshots.snaps[1] = [x \in {2, 3, 4} |-> x # 2]
    /\ snaps[1] = [x \in {2, 3, 4} |-> x # 2]

\* C3: two visibility-set nodes with the same nearest enclosing container
\* get equal step keys, and no emitted snapshot reflects one of their
\* assignments without the other.
C3_StepGrouping ==
    Built =>
      \A i, j \in 1..Len(events) :
        (events[i].ctn = events[j].ctn /\ events[i].ctn # NoCtn) =>
          /\ events[i].step = events[j].step
          /\ \A m \in 1..Len(snapshots.snaps) :
                (i <= snapshots.applied[m]) <=> (j <= snapshots.applied[m])

(* ------------------------- claims, SpecDeck ---------------------------- *)
Saved == pc = "saved"

InputEntries == Range(input.sldIdLst)
InputIds == {e.id : e \in InputEntries}

\* number of snapshots after snapshot 0 of the source entry with this id;
\* an entry the loop passed over has none
NewSnapshots(id) ==
    IF id \in DOMAIN built THEN Len(built[id].snaps) - 1 ELSE 0

\* the slide part a slide-list entry of the output resolves to
OutputPartOf(e) ==
    LET r == CHOOSE x \in Range(output.pres_rels) : x.Id = e.rid
    IN output.slides_dir[r.Target.num]

\* the allocations made for the source entry with this id
LogOf(id) == {l \in Range(log) : l.src = id}

\* C4: after the conversion, every source entry is followed immediately by
\* its N new entries in snapshot order, then by another source entry or the
\* end of the list.
C4_Contiguous ==
    Saved =>
      \A p \in 1..Len(output.sldIdLst) :
        LET src == output.sldIdLst[p]
            n == NewSnapshots(src.id)
        IN src.id \in InputIds =>
           /\ p + n <= Len(output.sldIdLst)
           /\ \A k \in 1..n :
                LET e == output.sldIdLst[p + k] IN
                /\ e.id \notin InputIds
                /\ \E l \in LogOf(src.id) :
                      l.k = k /\ l.id = e.id /\ l.rid = e.rid
                /\ OutputPartOf(e) =
                     materialise_snapshot(built[src.id].tree,
                                          built[src.id].snaps[k + 1], variant)
           /\ (p + n < Len(output.sldIdLst) =>
                 output.sldIdLst[p + n + 1].id \in InputIds)

\* C4 witness: a converted deck of two animated slides, the first with at
\* least two new snapshots.
C4_Witness ==
    /\ Saved
    /\ Len(input.sldIdLst) = 2
    /\ NewSnapshots(input.sldIdLst[1].id) >= 2
    /\ NewSnapshots(input.sldIdLst[2].id) >= 1
    /\ Len(output.sldIdLst) >= 5

\* C5: snapshot 0 is written to the source's part path and the source keeps
\* its slide-list entry and relationship; exactly N new slide parts, N new
\* relationships and N new slide-list entries are created for the slide.
C5_InPlaceAndNNew ==
    Saved =>
      \A src \in {e \in InputEntries : e.id \in DOMAIN built} :
        LET n == NewSnapshots(src.id)
            rel == CHOOSE x \in Range(input.pres_rels) : x.Id = src.rid
        IN /\ output.slides_dir[rel.Target.num] =
                materialise_snapshot(built[src.id].tree,
                                     built[src.id].snaps[1], variant)
           /\ src \in Range(output.sldIdLst)
           /\ rel \in Range(output.pres_rels)
           /\ Cardinality({l.part : l \in LogOf(src.id)}
                          \ DOMAIN input.slides_dir) = n
           /\ Cardinality({r \in Range(output.pres_rels) :
                             /\ r \notin Range(input.pres_rels)
                             /\ r.Id \in {l.rid : l \in LogOf(src.id)}}) = n
           /\ Cardinality({e \in Range(output.sldIdLst) :
                             /\ e \notin InputEntries
                             /\ e.id \in {l.id : l \in LogOf(src.id)}}) = n

\* numeric value of an id
Num(id) == ToInt(Digits(id))

Distinct(seq) == \A i, j \in 1..Len(seq) : i # j => seq[i] # seq[j]

\* C6: every relationship id and slide-list id allocated in the run is
\* greater than every id of its kind in the input deck and than those
\* allocated before it; no two relationships, no two entries share an id.
C6_IdsIncrease ==
    /\ \A k \in 1..Len(log) :
         /\ \A r \in Range(input.pres_rels) : Num(log[k].rid) > Num(r.Id)
         /\ \A e \in InputEntries : log[k].id > e.id
         /\ \A j \in 1..(k - 1) : /\ Num(log[k].rid) > Num(log[j].rid)
                                  /\ log[k].id > log[j].id
    /\ Distinct([i \in 1..Len(pres_rels) |-> pres_rels[i].Id])
    /\ Distinct([i \in 1..Len(sldIdLst) |-> sldIdLst[i].id])

\* C6 witness: three allocations in a deck whose highest relationship number
\* belongs to the slide master and whose highest slide-list id is not last.
C6_Witness ==
    /\ Len(log) >= 3
    /\ \E r \in Range(input.pres_rels) :
          /\ r.Type # SlideType
          /\ \A x \in Range(input.pres_rels) : Num(x.Id) <= Num(r.Id)
    /\ Len(input.sldIdLst) = 2
    /\ input.sldIdLst[1].id > input.sldIdLst[2].id
    /\ Len(pres_rels) = Len(input.pres_rels) + Len(log)
    /\ Len(sldIdLst) = Len(input.sldIdLst) + Len(log)

\* C7: every slide part number allocated is greater than the number of every
\* slide part of the package, referenced or not, and than those allocated
\* before it.
C7_PartNumbersFresh ==
    \A k \in 1..Len(log) :
      /\ \A q \in DOMAIN input.slides_dir : log[k].part > q
      /\ \A j \in 1..(k - 1) : log[k].part > log[j].part

(* ------------------------- claims, SpecSplit --------------------------- *)
\* the Before and the After slide of a finished pair, as the deck holds them
BeforeOf(r) == SlideOf(prs, r.before)
AfterOf(r) == SlideOf(prs, r.after)

Pairs == Range(splits)

\* C8: an id of a shape of the slide that is only in the entrance bucket is
\* absent from the Before slide and present in the After slide; one that is
\* only in the exit bucket is present in the Before slide and absent from
\* the After slide.
C8_Complementarity ==
    \A r \in Pairs :
      /\ \A id \in (r.ids_in \ r.ids_out) \cap r.shapes :
            ~Present(BeforeOf(r), id) /\ Present(AfterOf(r), id)
      /\ \A id \in (r.ids_out \ r.ids_in) \cap r.shapes :
            Present(BeforeOf(r), id) /\ ~Present(AfterOf(r), id)

\* C9: a shape of an animated slide that is in neither bucket is present in
\* the Before slide and in the After slide.
C9_UnclassifiedKept ==
    \A r \in Pairs :
      \A id \in r.shapes \ (r.ids_in \cup r.ids_out) :
         Present(BeforeOf(r), id) /\ Present(AfterOf(r), id)

\* C10: an id of a shape of the slide that is in both buckets is absent from
\* the Before slide and from the After slide.
C10_BothHidden ==
    \A r \in Pairs :
      \A id \in r.ids_in \cap r.ids_out \cap r.shapes :
         ~Present(BeforeOf(r), id) /\ ~Present(AfterOf(r), id)

\* C10 witness: a finished pair of a slide on which a shape enters and then
\* leaves, its source still holding that shape.
C10_Witness ==
    \E r \in Pairs :
      /\ r.ids_in \cap r.ids_out \cap r.shapes # {}
      /\ \E id \in r.ids_in \cap r.ids_out : Present(SlideOf(prs, r.src), id)
      /\ ~BeforeOf(r).attached /\ ~AfterOf(r).attached

(* -------------------------- claims, SpecMat ---------------------------- *)
Materialised == pc = "materialised"

\* the top-level shapes of a tree that are not groups and carry an id
TopShapes(tree) ==
    {k \in Range(tree.kids) :
       k.tag \in {"sp", "pic", "graphicFrame"} /\ HasSpid(k)}

\* the element is a child of the shape tree returned
KeptAtTop(k) == k \in Range(mat_out.kids)

\* C11: materialise_snapshot keeps a top-level sp, pic or graphicFrame of the
\* original tree exactly when the snapshot does not map its id to false; a
\* shape whose id the snapshot does not hold is kept.
C11_KeptIffNotFalse ==
    Materialised =>
      \A k \in TopShapes(mat_tree) :
         KeptAtTop(k) <=> ~MapsToFalse(mat_map, Spid(k))

\* C11 witness: a tree of three top-level shapes materialised with a map
\* that holds one id as false, one as true and not the third: the first is
\* gone, the other two are kept.
C11_Witness ==
    /\ Materialised
    /\ Cardinality(TopShapes(mat_tree)) = 3
    /\ \E a, b, c \in TopShapes(mat_tree) :
          /\ MapsToFalse(mat_map, Spid(a)) /\ ~KeptAtTop(a)
          /\ MapsToTrue(mat_map, Spid(b)) /\ KeptAtTop(b)
          /\ Spid(c) \notin DOMAIN mat_map /\ KeptAtTop(c)

\* the ids of the shapes, groups included, that an element is or holds
IdsIn(el) ==
    {Spid(e) : e \in {x \in Range(<<el>> \o Descendants(el)) :
                        x.tag \in ShapeElementTags /\ HasSpid(x)}}

TopGroups(tree) ==
    {k \in Range(tree.kids) : k.tag = "grpSp" /\ HasSpid(k)}

\* C12: when the snapshot maps the id of a top-level group to false, the
\* tree returned holds neither the group nor any shape the group holds.
C12_GroupRemoved ==
    Materialised =>
      \A g \in TopGroups(mat_tree) :
         MapsToFalse(mat_map, Spid(g)) => IdsIn(g) \cap IdsIn(mat_out) = {}

(* ------------------- claims, SpecSplit (continued) --------------------- *)
\* the shapes a group holds as its own children
ChildShapes(g) ==
    {k \in Range(g.kids) : k.tag \in ShapeElementTags /\ HasSpid(k)}

Listed(el, ids) == str_int(Spid(el)) \in ids

\* For every top-level group of the tree whose own id is not among ids while
\* the id of one of its children is: the group is in the slide, and so is
\* every child of it that neither is nor holds a shape with an id among ids,
\* while the listed children are not.
OnlyChildrenDropped(slide, ids, tree) ==
    \A g \in TopGroups(tree) :
       (~Listed(g, ids) /\ \E c \in ChildShapes(g) : Listed(c, ids)) =>
          /\ Present(slide, str_int(Spid(g)))
          /\ \A c \in ChildShapes(g) :
                IF {str_int(i) : i \in IdsIn(c)} \cap ids = {}
                THEN Present(slide, str_int(Spid(c)))
                ELSE Listed(c, ids) => ~Present(slide, str_int(Spid(c)))

\* C13: when the id of a child of a group is listed for dropping and the
\* group's own id is not, only the child's subtree is removed: the group and
\* the child's siblings stay in the Before slide (dropped with ids_in) and in
\* the After slide (dropped with ids_out).
C13_OnlyChildRemoved ==
    \A r \in Pairs :
       /\ OnlyChildrenDropped(BeforeOf(r), r.ids_in, slide_parts[r.part].tree)
       /\ OnlyChildrenDropped(AfterOf(r), r.ids_out, slide_parts[r.part].tree)

(* -------------------- claims, SpecDeck (continued) --------------------- *)
\* the slide part of the input a slide-list entry resolves to
InputRelOf(e) == CHOOSE x \in Range(input.pres_rels) : x.Id = e.rid
InputPartOf(e) == input.slides_dir[InputRelOf(e).Target.num]

\* the entry names a relationship id the relationship file of the input does
\* not have
Dangling(e) == e.rid \notin {r.Id : r \in Range(input.pres_rels)}

\* the entry resolves to a slide of the input that has no visibility event
ZeroEvents(e) ==
    /\ ~Dangling(e)
    /\ InputRelOf(e).Type = SlideType
    /\ collect_visibility_events(InputPartOf(e).timing) = {<<>>}

\* C14: a slide without visibility events has one snapshot, every shape
\* visible in it; after the conversion its part holds every shape of the
\* input slide, and no slide part, relationship or slide-list entry was
\* allocated for it.
C14_StaticSlide ==
    Saved =>
      \A src \in {e \in InputEntries : ZeroEvents(e)} :
         /\ built[src.id].snaps =
              <<[x \in collect_shapes(InputPartOf(src).tree, variant) |-> TRUE]>>
         /\ output.slides_dir[InputRelOf(src).Target.num].tree =
              InputPartOf(src).tree
         /\ LogOf(src.id) = {}
         /\ Cardinality({p \in 1..Len(output.sldIdLst) :
                           output.sldIdLst[p].id = src.id}) = 1
         /\ \A p \in 1..(Len(output.sldIdLst) - 1) :
               output.sldIdLst[p].id = src.id =>
                  output.sldIdLst[p + 1].id \in InputIds

\* C14 witness: a converted deck of two slides, the first animated, the
\* second without events: a slide part was allocated for the first one only.
C14_Witness ==
    /\ Saved
    /\ Len(input.sldIdLst) = 2
    /\ ~ZeroEvents(input.sldIdLst[1])
    /\ ZeroEvents(input.sldIdLst[2])
    /\ collect_shapes(InputPartOf(input.sldIdLst[2]).tree, variant) # {}
    /\ log # <<>>
    /\ output.sldIdLst[Len(output.sldIdLst)] = input.sldIdLst[2]

\* C15: after the conversion the files of the archive that are neither under
\* ppt/slides nor presentation.xml nor its relationship file are the files
\* of the input, each with the content it had: none added, none removed.
C15_OtherPartsKept ==
    Saved =>
      /\ DOMAIN output.others = DOMAIN input.others
      /\ \A f \in DOMAIN input.others : output.others[f] = input.others[f]

\* C15 witness: a converted deck that got new slide parts and a copied
\* relationship file, with a notes slide and the content types among its
\* other files.
C15_Witness ==
    /\ Saved
    /\ log # <<>>
    /\ DOMAIN output.rels_dir # DOMAIN input.rels_dir
    /\ <<"[Content_Types].xml">> \in DOMAIN output.others
    /\ \E f \in DOMAIN output.others : Len(f) = 3 /\ f[2] = "notesSlides"

\* C16: the save is atomic at the destination: in every state, a crash while
\* the archive is written included, OUTPUT_PPTX holds no new file or the
\* complete archive of the converted deck.
C16_AtomicSave ==
    output.written =>
      /\ output.complete
      /\ output.sldIdLst = sldIdLst
      /\ output.pres_rels = pres_rels
      /\ output.slides_dir = slides_dir
      /\ output.rels_dir = rels_dir
      /\ output.others = others

\* the slide part an entry of the input resolves to is not in the archive
PartMissing(e) ==
    /\ ~Dangling(e)
    /\ InputRelOf(e).Type = SlideType
    /\ InputRelOf(e).Target.num \notin DOMAIN input.slides_dir

\* a fatal error occurs at the next step: INPUT_PPTX cannot be opened, the
\* entry the loop reaches has a relationship id without entry in the index,
\* or the slide part it resolves to is missing
ErrorAhead ==
    \/ pc = "open" /\ ~input.is_file
    \/ /\ pc = "slide"
       /\ todo # <<>>
       /\ \/ Head(todo).rid \notin DOMAIN relinfo
          \/ /\ Head(todo).rid \in DOMAIN relinfo
             /\ relinfo[Head(todo).rid].type = SlideType
             /\ relinfo[Head(todo).rid].target.num \notin DOMAIN slides_dir

\* C17: when a fatal error occurs (the input cannot be opened, the
\* relationship id of the entry reached is not in the index, the slide part
\* it resolves to is missing) the run aborts and OUTPUT_PPTX is left
\* unwritten, whatever was converted before; an input that cannot be opened
\* or lacks the part of an entry is never saved.
C17_FatalLeavesNoOutput ==
    /\ [][ErrorAhead => (pc' = "aborted" /\ output' = NoOutput)]_vars
    /\ [](pc = "aborted" => output = NoOutput)
    /\ []((~input.is_file \/ \E e \in InputEntries : PartMissing(e))
            => ~output.written)

\* C17 witness: the run aborted at the second entry, whose slide part is
\* missing, after the first slide was converted into several parts.
C17_Witness ==
    /\ pc = "aborted"
    /\ Len(input.sldIdLst) = 2
    /\ PartMissing(input.sldIdLst[2])
    /\ LogOf(input.sldIdLst[1].id) # {}
    /\ todo = <<>>
    /\ output = NoOutput

(* -------------------- claims, SpecSplit (continued) -------------------- *)
\* the slide part has a malformed animation node: a <p:set> whose
\* <p:attrName> has no text or a motion path with a coordinate that is not an
\* integer
Malformed(xml) ==
    \/ \E st \in Range(findall(xml, "set")) :
          \E n \in Range(findall(st, "attrName")) : n.text = None
    \/ \E m \in Range(findall(xml, "animMotion")) :
          \E t \in Range(children(m, "to")) :
             \E a \in {"x", "y"} : ~is_numeral(get_default(t, a, "0"))

\* C18: a malformed animation node never aborts the classification of its
\* slide: the entrance/exit classifier returns for every slide part, the
\* ones with such a node included.
C18_MalformedNodeIgnored ==
    \A p \in 1..Len(slide_parts) :
       (idx = p /\ Malformed(slide_parts[p].timing))
          => pc # "classify_failed"

\* the relationships of a slide the clone is to have: images, charts, media,
\* videos and embedded objects
MediaRels(slide) == {r \in Range(slide.rels) : r.reltype \in RELS_COPY_TYPES}

\* the relationships of the clone send the id of the relationship to its
\* target
Resolves(slide, rel) ==
    \E q \in Range(slide.rels) : q.rId = rel.rId /\ q.target = rel.target

\* C19: the Before and the After slide of a finished pair have, for every
\* media relationship of the slide they were cloned from, a relationship of
\* the same id to the same target.
C19_MediaRelsCopied ==
    \A r \in Pairs :
      \A rel \in MediaRels(SlideOf(prs, r.src)) :
         Resolves(BeforeOf(r), rel) /\ Resolves(AfterOf(r), rel)

\* C20: the Before and After slides of a finished pair are clones of the
\* slide whose part was classified: the slide taken at the part's position
\* in the deck is the slide of that part.
C20_SourceIsClassifiedSlide ==
    \A r \in Pairs : r.src = slide_parts[r.part].sid

\* the place of a slide in the slide list of the deck
PosOf(sid) == CHOOSE i \in 1..Len(prs) : prs[i].sid = sid

\* C21: the two slides of the pair just finished stand right after their
\* source in the slide list, in emission order: the Before slide right after
\* the source, the After slide right after the Before slide.
C21_PairContiguous ==
    (pc = "scan" /\ splits # <<>>) =>
       LET r == splits[Len(splits)] IN
       /\ PosOf(r.before) = PosOf(r.src) + 1
       /\ PosOf(r.after) = PosOf(r.before) + 1

(* ------------------------- claims, SpecClass --------------------------- *)
Classified == pc = "classified"

\* the click containers of the slide that carry no effect class
PlainClickEffects ==
    {c \in Range(ClickEffects(cls_xml)) :
       lowered(c, "presetClass") \notin {"entr", "exit"}}

\* the visibility sets under a container, and the bucket the target value
\* of one determines
VisibilitySets(c) ==
    {st \in Range(findall(c, "set")) :
       \E a \in Range(findall(st, "attrName")) :
          string_value(a) = "style.visibility"}
BucketOf(st) == IF to_val(st) = "hidden" THEN "exit" ELSE "entr"
Bucket(which) == IF which = "entr" THEN cls_out.entr ELSE cls_out.exit
Other(which) == IF which = "entr" THEN "exit" ELSE "entr"

\* C22: the ids a click container without effect class contributes are in
\* the bucket the visibility set targeting them determines, and in no other,
\* also when the sets of the container have different target values.
C22_ClickEffectBySet ==
    Classified =>
      \A c \in PlainClickEffects :
        \A st \in VisibilitySets(c) :
          \A id \in add(spids(st), cls_script) :
             /\ id \in Bucket(BucketOf(st))
             /\ id \notin Bucket(Other(BucketOf(st)))

\* the attribute names of a set node, in lower case
NamesOf(st) ==
    {lower(string_value(n)) : n \in Range(findall(st, "attrName"))}
OnVisibility(st) == "style.visibility" \in NamesOf(st)
OnOpacity(st) ==
    ~OnVisibility(st) /\ {"opacity", "style.opacity"} \cap NamesOf(st) # {}

\* the text is a decimal numeral (digits with at most one point); its value
\* is zero, or is not
IsDecimal(t) ==
    /\ Len(t) > 0
    /\ \A i \in 1..Len(t) :
          CharAt(t, i) = "." \/ \E d \in 1..Len(Decimal) :
                                   CharAt(Decimal, d) = CharAt(t, i)
    /\ Cardinality({i \in 1..Len(t) : CharAt(t, i) = "."}) <= 1
    /\ \E i \in 1..Len(t) : CharAt(t, i) # "."
IsZero(t) ==
    IsDecimal(t) /\ \A i \in 1..Len(t) : CharAt(t, i) \in {"0", "."}
NonZero(t) == IsDecimal(t) /\ ~IsZero(t)

TargetsOf(st) == add(spids(st), cls_script)

\* C23: a set on the visibility attribute marks its targets exit when its
\* target value is "hidden" and entrance otherwise; a set on opacity or
\* style.opacity marks its targets exit when its target value is zero,
\* however it is written, and entrance only when it is not zero.
C23_SetBuckets ==
    Classified =>
      \A st \in Range(findall(cls_xml, "set")) :
         /\ OnVisibility(st) => TargetsOf(st) \subseteq Bucket(BucketOf(st))
         /\ (OnOpacity(st) /\ IsZero(to_val(st))) =>
               (/\ TargetsOf(st) \subseteq cls_out.exit
                /\ TargetsOf(st) \cap cls_out.entr = {})
         /\ (OnOpacity(st) /\ NonZero(to_val(st))) =>
               TargetsOf(st) \subseteq cls_out.entr
         /\ (OnOpacity(st) /\ TargetsOf(st) \cap cls_out.entr # {}) =>
               NonZero(to_val(st))

\* the destination of a motion path, when it has one, and its coordinates
HasDestination(m) == children(m, "to") # <<>>
CoordinateOf(m, axis) == int(get_default(children(m, "to")[1], axis, "0"))
OutsideCanvas(m) ==
    \E axis \in {"x", "y"} :
       CoordinateOf(m, axis) < 0 \/ CoordinateOf(m, axis) > OffCanvas

\* C24: a motion path marks its targets exit exactly when its destination
\* has a coordinate below 0 or above 100000; with both coordinates in
\* 0..100000, or without destination, its targets are in neither bucket.
C24_MotionOutsideCanvas ==
    Classified =>
      \A m \in Range(findall(cls_xml, "animMotion")) :
         /\ TargetsOf(m) \cap cls_out.entr = {}
         /\ IF HasDestination(m) /\ OutsideCanvas(m)
            THEN TargetsOf(m) \subseteq cls_out.exit
            ELSE TargetsOf(m) \cap cls_out.exit = {}

\* C24 witness: a motion path of shape 2 that ends on the right edge of the
\* canvas and above it, classified as an exit.
C24_Witness ==
    /\ Classified
    /\ \E m \in Range(findall(cls_xml, "animMotion")) :
          /\ HasDestination(m)
          /\ CoordinateOf(m, "x") = OffCanvas
          /\ CoordinateOf(m, "y") = 0 - 1
          /\ TargetsOf(m) = {"2"}
    /\ cls_out = [entr |-> {}, exit |-> {"2"}]

(* -------------------- claims, SpecDeck (continued) --------------------- *)
\* C25: when the converted deck is saved, every entry of the slide list,
\* old or new, names a relationship id of the deck-level index, that
\* relationship has the slide type, and the slide part it targets is in the
\* package.
C25_EntriesResolve ==
    Saved =>
      \A e \in Range(output.sldIdLst) :
         /\ e.rid \in DOMAIN RelInfoOf(output.pres_rels)
         /\ RelInfoOf(output.pres_rels)[e.rid].type = SlideType
         /\ RelInfoOf(output.pres_rels)[e.rid].target.dir = "slides"
         /\ RelInfoOf(output.pres_rels)[e.rid].target.num
               \in DOMAIN output.slides_dir

\* the entries of the output slide list that carry the id of an entry of
\* the input, in the order of the output
KeptEntries == SelectSeq(output.sldIdLst, LAMBDA e : e.id \in InputIds)

\* C26: the entries the slide list had before the conversion are in the
\* output slide list with their slide id and relationship id, in the order
\* they had.
C26_OldEntriesUnchanged == Saved => KeptEntries = input.sldIdLst

\* C26 witness: a converted deck of two animated slides whose ids run
\* against the list order, with new entries after each of them.
C26_Witness ==
    /\ Saved
    /\ Len(input.sldIdLst) = 2
    /\ input.sldIdLst[1].id > input.sldIdLst[2].id
    /\ LogOf(input.sldIdLst[1].id) # {}
    /\ LogOf(input.sldIdLst[2].id) # {}
    /\ Len(output.sldIdLst) = Len(input.sldIdLst) + Len(log)
    /\ KeptEntries = input.sldIdLst

====
